---- MODULE Spec2Model ----
(***************************************************************************)
(* Krakatau assembler (src/Krakatau/assembler/assembler.py): the deferred  *)
(* constant-pool references (PoolRef, PoolInfo), the instruction encoder   *)
(* (getPadding, getInstrLen, assembleInstruction), the two-pass code       *)
(* attribute assembler (assembleCodeAttr) and the class assembler          *)
(* (assemble).                                                             *)
(* Krakatau restructurer (src/Krakatau/java/structuring.py): DominatorInfo,*)
(* structureLoops, structureExceptions, structureConditionals,             *)
(* createConstraints, orderConstraints, mergeExceptions,                   *)
(* fixTryConstraints, completeScopes, addBreakScopes, constraintsToSETree  *)
(* and their driver structure().                                           *)
(*                                                                         *)
(* Byte strings are sequences of integers in 0..255.  Python's None is     *)
(* NoneIdx for an index, "" for a PoolRef label and NoneKey for a key of   *)
(* the code-label dictionary.  An exception is an outcome record whose err *)
(* field names the exception.                                              *)
(***************************************************************************)
EXTENDS Integers, Sequences, FiniteSets, TLC

VARIABLES
    \* PoolRef.index of every PoolRef object, PoolInfo.lbls, ConstPool contents
    index, lbls, cpool,
    \* record of the last top-level PoolRef.toIndex call, first result per ref
    last, first_index,
    \* assemble(): the parsed tree, the position in it, and what was produced
    tree, pc, ci, fi, mi, li,
    \* assembleCodeAttr(): labels, offsets, pos, code_bytes
    labels, offsets, pos, code_bytes,
    \* record of the last assembleInstruction call, the offsets at which the
    \* instructions were emitted
    emitted, emit_at,
    \* output of assemble(): fields, methods, class_code; the error raised
    fields, methods, class_code, err, errmsg,
    \* structure(): the CFG node objects (graph[n] is node n), the list nodes,
    \* the entry node, the position in structure() and the exception raised
    graph, nodes, entryNode, spc, serr,
    \* the DominatorInfo under construction or in use
    dominfo,
    \* results of the passes: while_heads, newtryinfos, (switchinfos, ifinfos)
    while_heads, newtryinfos, condinfos,
    \* the constraint objects (cons[c] is constraint c), the list constraints,
    \* the constraint tree (croot, children)
    cons, constraints, ctree,
    \* locals of the pass that is running, record of the last step taken
    work, step

poolVars == <<index, lbls, cpool>>
callVars == <<last, first_index>>
asmVars  == <<tree, pc, ci, fi, mi, li, fields, methods, class_code, err, errmsg>>
codeVars == <<labels, offsets, pos, code_bytes, emitted, emit_at>>
structVars == <<graph, nodes, entryNode, spc, serr, dominfo, while_heads,
                newtryinfos, condinfos, cons, constraints, ctree, work, step>>
vars     == <<poolVars, callVars, asmVars, codeVars, structVars>>

(***************************************************************************)
(* Bounds of the model.                                                    *)
(***************************************************************************)
\* longest method body (statements) drawn as input
MaxStmts == 3
\* depth of nested toIndex calls at which the interpreter gives up
\* (RuntimeError: maximum recursion depth exceeded)
MaxDepth == 8

Range(s) == {s[i] : i \in 1..Len(s)}

(***************************************************************************)
(* struct.pack: big-endian fields.  A value out of the field's range       *)
(* raises struct.error.                                                    *)
(***************************************************************************)
\* the fields of a struct format string, one name per field
FmtFields(fmt) ==
    CASE fmt = ""    -> <<>>
      [] fmt = ">B"  -> <<"B">>
      [] fmt = ">b"  -> <<"b">>
      [] fmt = ">h"  -> <<"h">>
      [] fmt = ">H"  -> <<"H">>
      [] fmt = ">i"  -> <<"i">>
      [] fmt = ">Bb" -> <<"B", "b">>
      [] fmt = ">HB" -> <<"H", "B">>

FieldSize(f) ==
    CASE f \in {"B", "b"} -> 1
      [] f \in {"H", "h"} -> 2
      [] f \in {"i", "I"} -> 4

FieldInRange(f, v) ==
    CASE f = "B" -> v >= 0 /\ v <= 255
      [] f = "b" -> v >= -128 /\ v <= 127
      [] f = "H" -> v >= 0 /\ v <= 65535
      [] f = "h" -> v >= -32768 /\ v <= 32767
      [] f = "i" -> TRUE
      [] f = "I" -> v >= 0

FieldBytes(f, v) ==
    LET BE16(w) == <<(w \div 256) % 256, w % 256>> IN
    CASE f \in {"B", "b"} -> <<v % 256>>
      [] f \in {"H", "h"} -> BE16(v % 65536)
      [] f \in {"i", "I"} -> BE16((v \div 65536) % 65536) \o BE16(v % 65536)

RECURSIVE StructSize(_)
StructSize(fs) == IF fs = <<>> THEN 0 ELSE FieldSize(Head(fs)) + StructSize(Tail(fs))

\* struct.pack(fmt, *vals) succeeds
PackOK(fs, vals) ==
    /\ Len(fs) = Len(vals)
    /\ \A i \in 1..Len(fs) : FieldInRange(fs[i], vals[i])

RECURSIVE PackBytes(_, _)
PackBytes(fs, vals) ==
    IF fs = <<>> THEN <<>>
    ELSE FieldBytes(Head(fs), Head(vals)) \o PackBytes(Tail(fs), Tail(vals))

(***************************************************************************)
(* PoolRef objects.  The parser builds them; the model draws them from a   *)
(* fixed table of objects, one row per object: the index keyword, the lbl  *)
(* keyword, and args = (tag, raw, sub-references...).                      *)
(***************************************************************************)
NoneIdx == -1

PRef(i, l, t, r, s) == [index |-> i, lbl |-> l, tag |-> t, raw |-> r, subs |-> s]

RefTable == <<
    PRef(5, "", "", "", <<>>),                  \* 1: [5], a direct index
    PRef(NoneIdx, "a", "", "", <<>>),           \* 2: [a]
    PRef(NoneIdx, "b", "", "", <<>>),           \* 3: [b]
    PRef(NoneIdx, "", "Utf8", "x", <<>>),       \* 4: Utf8 "x"
    PRef(NoneIdx, "", "Class", "", <<2>>),      \* 5: Class [a]
    PRef(NoneIdx, "s1", "", "", <<>>),          \* 6: [s1]
    PRef(NoneIdx, "", "Utf8", "m", <<>>),       \* 7: Utf8 "m"
    PRef(NoneIdx, "", "Utf8", "()V", <<>>),     \* 8: Utf8 "()V"
    PRef(NoneIdx, "", "Class", "", <<7>>)       \* 9: Class Utf8 "m"
>>

RefIds == 1..Len(RefTable)
PoolLabels == {"a", "b", "s1"}
\* lbls[l] = NoRef: l is not a key of PoolInfo.lbls
NoRef == 0

\* PoolRef.__init__: index as given by the keyword, None otherwise
InitIndex == [r \in RefIds |-> RefTable[r].index]

(***************************************************************************)
(* ConstPool.getItemRaw: interning.  An item already in the pool keeps its *)
(* index; a new one takes the next index.  Indices start at 1.             *)
(***************************************************************************)
Item(tag, raw, idx) == [tag |-> tag, raw |-> raw, idx |-> idx]

getItemRaw(p, it) ==
    IF it \in Range(p) THEN [pool |-> p, val |-> CHOOSE i \in 1..Len(p) : p[i] = it]
    ELSE [pool |-> Append(p, it), val |-> Len(p) + 1]

(***************************************************************************)
(* PoolRef.toIndex and PoolInfo.getLabel.  The state they read and write   *)
(* is threaded as s = [index, cpool, looked, missed]: looked records that  *)
(* getLabel was called, missed that a label was entered again while its    *)
(* own resolution was still running and the recursion went on.             *)
(***************************************************************************)
PState(ix, p) == [index |-> ix, cpool |-> p, looked |-> FALSE, missed |-> FALSE]

Ok(s, v) == [err |-> "none", val |-> v, msg |-> <<>>, s |-> s]
Fail(s, e, m) == [err |-> e, val |-> NoneIdx, msg |-> m, s |-> s]

\* line 25: if self.index is not None
memoisedNever(r, s) == FALSE
memoised(r, s) == s.index[r] # NoneIdx

\* line 40: if lbl in forbidden
isForbiddenNever(lbl, forbidden) == FALSE
isForbidden(lbl, forbidden) == lbl \in Range(forbidden)

RECURSIVE toIndex(_, _, _, _, _), getLabel(_, _, _, _, _), resolveArgs(_, _, _, _, _, _)

\* active: the labels whose getLabel call is on the call stack (bookkeeping,
\* the code has no such value); fuel: the call depth left
toIndex(r, s, forbidden, active, fuel) ==
    IF memoised(r, s) THEN Ok(s, s.index[r])
    ELSE IF fuel = 0 THEN Fail(s, "RuntimeError", <<>>)
    ELSE IF RefTable[r].lbl # ""
    THEN LET res == getLabel(RefTable[r].lbl, s, forbidden, active, fuel - 1)
         IN  IF res.err # "none" THEN res
             ELSE [res EXCEPT !.s.index[r] = res.val]
    ELSE \* line 30: the sub-references are resolved with the default forbidden=()
         LET a == resolveArgs(RefTable[r].subs, 1, s, <<>>, active, fuel - 1)
         IN  IF a.err # "none" THEN Fail(a.s, a.err, a.msg)
             ELSE LET g == getItemRaw(a.s.cpool,
                                      Item(RefTable[r].tag, RefTable[r].raw, a.val))
                  IN  Ok([a.s EXCEPT !.cpool = g.pool, !.index[r] = g.val], g.val)

\* the list comprehension of line 30, left to right; val is the list built
resolveArgs(subs, i, s, acc, active, fuel) ==
    IF i > Len(subs) THEN [err |-> "none", val |-> acc, msg |-> <<>>, s |-> s]
    ELSE LET res == toIndex(subs[i], s, <<>>, active, fuel)
         IN  IF res.err # "none"
             THEN [err |-> res.err, val |-> acc, msg |-> res.msg, s |-> res.s]
             ELSE resolveArgs(subs, i + 1, res.s, Append(acc, res.val), active, fuel)

getLabel(lbl, s, forbidden, active, fuel) ==
    LET s1 == [s EXCEPT !.looked = TRUE] IN
    IF isForbidden(lbl, forbidden)
    THEN Fail(s1, "RecursivePoolRef", forbidden)
    ELSE IF lbls[lbl] = NoRef THEN Fail(s1, "KeyError", <<lbl>>)
    ELSE toIndex(lbls[lbl],
                 [s1 EXCEPT !.missed = @ \/ lbl \in active],
                 Append(forbidden, lbl), active \cup {lbl}, fuel)

\* x.toIndex(pool) as the assembler calls it
Resolve(r, ix, p) == toIndex(r, PState(ix, p), <<>>, {}, MaxDepth)

\* PoolInfo.Utf8
Utf8(p, str) == getItemRaw(p, Item("Utf8", str, <<>>))

(***************************************************************************)
(* Instructions.  The parser's tuple (op, operand...) is a record with one *)
(* field per operand kind: ints (integer operands), ref (a PoolRef object, *)
(* NoRef for none), lbl (a code label), and for the switches param, tjumps *)
(* (tableswitch: labels) or ljumps (lookupswitch: <<key, label>> pairs)    *)
(* and dflt; for wide, sub and wargs.  NoIns is the None of a statement    *)
(* that holds a label only.                                                *)
(***************************************************************************)
Ins(op, ints, ref, lbl) ==
    [op |-> op, ints |-> ints, ref |-> ref, lbl |-> lbl, param |-> 0,
     tjumps |-> <<>>, ljumps |-> <<>>, dflt |-> "", sub |-> "", wargs |-> <<>>]

NoIns == Ins("", <<>>, NoRef, "")
TableSwitch(param, jumps, dflt) ==
    [Ins("tableswitch", <<>>, NoRef, "") EXCEPT !.param = param, !.tjumps = jumps, !.dflt = dflt]
LookupSwitch(jumps, dflt) ==
    [Ins("lookupswitch", <<>>, NoRef, "") EXCEPT !.ljumps = jumps, !.dflt = dflt]
Wide(sub, args) ==
    [Ins("wide", <<>>, NoRef, "") EXCEPT !.sub = sub, !.wargs = args]

\* instructions.instrs_noarg, instructions.instrs_lbl and the opcode numbers
\* instructions.allinstructions.index(op), for the mnemonics the model uses
instrs_noarg == {"nop", "return"}
instrs_lbl == {"ifeq", "ifne", "iflt", "ifge", "ifgt", "ifle", "if_icmpeq",
               "if_icmpne", "if_icmplt", "if_icmpge", "if_icmpgt", "if_icmple",
               "if_acmpeq", "if_acmpne", "goto", "jsr", "ifnull", "ifnonnull",
               "goto_w", "jsr_w"}
OpcodeOf(op) ==
    CASE op = "nop" -> 0
      [] op = "bipush" -> 16
      [] op = "sipush" -> 17
      [] op = "ldc" -> 18
      [] op = "iload" -> 21
      [] op = "iinc" -> 132
      [] op = "goto" -> 167
      [] op = "tableswitch" -> 170
      [] op = "lookupswitch" -> 171
      [] op = "return" -> 177
      [] op = "wide" -> 196
      [] op = "goto_w" -> 200

\* _format_ops, lines 53-64
Formats == {"", ">B", ">h", ">H", ">b", ">Bb", ">HB", ">i"}
format_ops(fmt) ==
    CASE fmt = ""    -> instrs_noarg
      [] fmt = ">B"  -> {"iload", "lload", "fload", "dload", "aload", "istore",
                         "lstore", "fstore", "dstore", "astore", "ret",
                         "ldc", "newarray"}
      [] fmt = ">h"  -> {"ifeq", "ifne", "iflt", "ifge", "ifgt", "ifle",
                         "if_icmpeq", "if_icmpne", "if_icmplt", "if_icmpge",
                         "if_icmpgt", "if_icmple", "if_acmpeq", "if_acmpne",
                         "goto", "jsr", "ifnull", "ifnonnull", "sipush"}
      [] fmt = ">H"  -> {"ldc_w", "ldc2_w", "getstatic", "putstatic", "getfield",
                         "putfield", "invokevirtual", "invokespecial",
                         "invokestatic", "invokedynamic", "new", "anewarray",
                         "checkcast", "instanceof"}
      [] fmt = ">b"  -> {"bipush"}
      [] fmt = ">Bb" -> {"iinc"}
      [] fmt = ">HB" -> {"invokeinterface", "multianewarray"}
      [] fmt = ">i"  -> {"goto_w", "jsr_w"}

\* op in _op_structs, and _op_structs[op] as the fields of its format
in_op_structs(op) == \E fmt \in Formats : op \in format_ops(fmt)
op_structs(op) == FmtFields(CHOOSE fmt \in Formats : op \in format_ops(fmt))

getPaddingOff(p) == (4 - p) % 4
getPadding(p) == (3 - p) % 4

getInstrLen(instr, p) ==
    IF in_op_structs(instr.op) THEN 1 + StructSize(op_structs(instr.op))
    \* line 80: instr[1] of a wide instruction is the pair (subop, args)
    ELSE IF instr.op = "wide" THEN 2 * Len(<<instr.sub, instr.wargs>>)
    ELSE IF instr.op = "tableswitch"
         THEN 13 + getPadding(p) + 4 * Len(instr.tjumps)
         ELSE 9 + getPadding(p) + 8 * Len(instr.ljumps)

(***************************************************************************)
(* assembleInstruction.  The code-label dictionary is a function from its  *)
(* keys to offsets; NoneKey is the key None, which every statement without *)
(* a label writes.                                                         *)
(***************************************************************************)
NoneKey == ""

\* lbl2Off, line 94
lbl2OffNext(lbl, lbs, p) == lbs[lbl] - (p + 1)
lbl2Off(lbl, lbs, p) == lbs[lbl] - p

\* lbl2Off, lines 91-93, for the labels an instruction converts, in the order
\* it converts them: which exception the first unknown label raises
Undefined(ls, lbs) == {i \in 1..Len(ls) : ls[i] \notin DOMAIN lbs}
FirstUndefined(ls, lbs) ==
    ls[CHOOSE i \in Undefined(ls, lbs) : \A j \in Undefined(ls, lbs) : i <= j]

\* the labels of an instruction in the order lbl2Off is applied to them
LabelsOf(instr) ==
    IF instr.op \in instrs_lbl THEN <<instr.lbl>>
    ELSE IF instr.op = "tableswitch" THEN <<instr.dflt>> \o instr.tjumps
    ELSE IF instr.op = "lookupswitch"
         THEN <<instr.dflt>> \o [i \in 1..Len(instr.ljumps) |-> instr.ljumps[i][2]]
    ELSE <<>>

\* struct.pack('>'+'H'*len(args), args), line 109: args is passed as the one
\* value to pack, for len(args) fields, and a tuple is not an integer
WidePackOK(args) == Len(args) = 1 /\ FALSE

\* the dict comprehension of line 123 and sorted(items) of line 124: one entry
\* per key, the last pair of a key wins, ascending keys
RECURSIVE SortedKeys(_)
SortedKeys(ks) ==
    IF ks = {} THEN <<>>
    ELSE LET m == CHOOSE k \in ks : \A o \in ks : k <= o
         IN  <<m>> \o SortedKeys(ks \ {m})

LastFor(jumps, k) ==
    jumps[CHOOSE i \in 1..Len(jumps) :
            /\ jumps[i][1] = k
            /\ \A j \in 1..Len(jumps) : jumps[j][1] = k => j <= i][2]

RECURSIVE Concat(_)
Concat(ss) == IF ss = <<>> THEN <<>> ELSE Head(ss) \o Concat(Tail(ss))

Zeros(n) == [i \in 1..n |-> 0]

Emit(exc, text, lbl, lbs, bytes, s) ==
    [exc |-> exc, text |-> text, lbl |-> lbl, labels |-> lbs, bytes |-> bytes,
     index |-> s.index, cpool |-> s.cpool, names |-> <<>>]

\* the bytes of an instruction whose operands are all integers: vals are the
\* operands after line 102
Encode(instr, vals, lbs, p) ==
    LET first == <<OpcodeOf(instr.op)>> IN
    IF in_op_structs(instr.op)
    THEN IF PackOK(op_structs(instr.op), vals)
         THEN [ok |-> TRUE, bytes |-> first \o PackBytes(op_structs(instr.op), vals)]
         ELSE [ok |-> FALSE, bytes |-> <<>>]
    ELSE IF instr.op = "wide"
    THEN IF WidePackOK(instr.wargs)
         THEN [ok |-> TRUE,
               bytes |-> first \o <<OpcodeOf(instr.sub)>>
                         \o PackBytes([i \in 1..Len(instr.wargs) |-> "H"], instr.wargs)]
         ELSE [ok |-> FALSE, bytes |-> <<>>]
    ELSE LET padding == getPadding(p)
             default == lbl2Off(instr.dflt, lbs, p)
         IN  IF instr.op = "tableswitch"
             THEN LET jumps == [i \in 1..Len(instr.tjumps) |->
                                    lbl2Off(instr.tjumps[i], lbs, p)]
                      low == instr.param
                      high == instr.param + Len(jumps) - 1
                  IN  [ok |-> TRUE,
                       bytes |-> first \o Zeros(padding)
                                 \o PackBytes(<<"i", "i", "i">>, <<default, low, high>>)
                                 \o Concat([i \in 1..Len(jumps) |->
                                              PackBytes(<<"i">>, <<jumps[i]>>)])]
             ELSE LET keys == SortedKeys({instr.ljumps[i][1] : i \in 1..Len(instr.ljumps)})
                  IN  [ok |-> TRUE,
                       bytes |-> first \o Zeros(padding)
                                 \o PackBytes(<<"i", "i">>, <<default, Len(keys)>>)
                                 \o Concat([i \in 1..Len(keys) |->
                                              PackBytes(<<"i", "i">>,
                                                <<keys[i],
                                                  lbl2Off(LastFor(instr.ljumps, keys[i]), lbs, p)>>)])]

assembleInstruction(instr, lbs, p, ix, pl) ==
    LET s0 == PState(ix, pl)
        \* line 100: the PoolRef operands become indices
        res == IF instr.ref = NoRef THEN Ok(s0, NoneIdx)
               ELSE Resolve(instr.ref, ix, pl)
        ls == LabelsOf(instr)
    IN  IF res.err = "RecursivePoolRef"
        THEN [Emit("AssemblerError", "RecursivePoolRef", "", lbs, <<>>, res.s)
                 EXCEPT !.names = res.msg]
        ELSE IF res.err # "none" THEN Emit(res.err, "", "", lbs, <<>>, res.s)
        ELSE IF Undefined(ls, lbs) # {}
        THEN \* lines 91-93: del labels[None], then the error
             IF NoneKey \notin DOMAIN lbs
             THEN Emit("KeyError", "", "", lbs, <<>>, res.s)
             ELSE Emit("AssemblerError", "UndefinedLabel", FirstUndefined(ls, lbs),
                       [k \in DOMAIN lbs \ {NoneKey} |-> lbs[k]], <<>>, res.s)
        ELSE LET vals == IF instr.ref # NoRef THEN <<res.val>> \o instr.ints
                         ELSE IF instr.op \in instrs_lbl
                              THEN <<lbl2Off(instr.lbl, lbs, p)>>
                              ELSE instr.ints
                 e == Encode(instr, vals, lbs, p)
             IN  IF e.ok THEN Emit("none", "", "", lbs, e.bytes, res.s)
                 ELSE Emit("struct.error", "", "", lbs, <<>>, res.s)

(***************************************************************************)
(* The pool on its own: labels are bound (assemble, line 199), references  *)
(* are resolved (PoolRef.toIndex) and strings are interned (PoolInfo.Utf8) *)
(* in any order.                                                           *)
(***************************************************************************)
\* the objects these calls are made on: [5], [a], [b], Utf8 "x", Class [a]
CallRefs == 1..5

\* what a call did: pre is PoolRef.index of every object before the call, had
\* the first index the object ever resolved to (None before that)
Call(op, r, pre, had, res, grew) ==
    [op |-> op, ref |-> r, pre |-> pre, had |-> had, err |-> res.err,
     val |-> res.val, msg |-> res.msg, grew |-> grew,
     looked |-> res.s.looked, missed |-> res.s.missed]

NoCall(op) ==
    Call(op, 0, InitIndex, NoneIdx, Ok(PState(InitIndex, <<>>), NoneIdx), FALSE)

NoMsg == [text |-> "", lbl |-> "", defined |-> {}, names |-> <<>>]
\* class_code before the class is assembled
NoClass == [made |-> FALSE, head |-> <<>>, pool |-> <<>>, tail |-> <<>>]
NoEmit == [k |-> 0, pos |-> 0, ins |-> NoIns, exc |-> "none", bytes |-> <<>>,
           labels |-> <<>>]

\* nothing assembled yet
AsmIdle ==
    /\ tree = [consts |-> <<>>, fields |-> <<>>, methods |-> <<>>]
    /\ pc = "idle" /\ ci = 1 /\ fi = 1 /\ mi = 1 /\ li = 1
    /\ fields = <<>> /\ methods = <<>> /\ class_code = NoClass
    /\ err = "none" /\ errmsg = NoMsg

CodeIdle ==
    /\ labels = <<>> /\ offsets = <<>> /\ pos = 0 /\ code_bytes = <<>>
    /\ emitted = NoEmit /\ emit_at = <<>>

\* no CFG is being restructured
StructIdle ==
    /\ graph = <<>> /\ nodes = <<>> /\ entryNode = 0
    /\ spc = "idle" /\ serr = "none"
    /\ dominfo = <<>> /\ while_heads = <<>> /\ newtryinfos = <<>>
    /\ condinfos = <<>> /\ cons = <<>> /\ constraints = <<>> /\ ctree = <<>>
    /\ work = <<>> /\ step = <<>>

PoolInit ==
    /\ index = InitIndex
    /\ lbls = [l \in PoolLabels |-> NoRef]
    /\ cpool = <<>>
    /\ last = NoCall("none")
    /\ first_index = [r \in RefIds |-> NoneIdx]
    /\ AsmIdle /\ CodeIdle /\ StructIdle

PoolFrame == UNCHANGED <<asmVars, codeVars, structVars>>

\* pool.lbls[lbl] = value
Bind(l, r) ==
    /\ lbls' = [lbls EXCEPT ![l] = r]
    /\ last' = NoCall("bind")
    /\ UNCHANGED <<index, cpool, first_index>>
    /\ PoolFrame

\* ref.toIndex(pool), a top-level call
CallToIndex(r) ==
    LET res == Resolve(r, index, cpool) IN
    /\ index' = res.s.index
    /\ cpool' = res.s.cpool
    /\ last' = Call("toIndex", r, index, first_index[r], res, res.s.cpool # cpool)
    /\ first_index' = IF first_index[r] = NoneIdx /\ res.err = "none"
                      THEN [first_index EXCEPT ![r] = res.val] ELSE first_index
    /\ UNCHANGED lbls
    /\ PoolFrame

\* pool.Utf8(s)
Intern(str) ==
    /\ cpool' = Utf8(cpool, str).pool
    /\ last' = NoCall("intern")
    /\ UNCHANGED <<index, lbls, first_index>>
    /\ PoolFrame

PoolNext ==
    \/ \E l \in {"a", "b"}, r \in CallRefs : Bind(l, r)
    \/ \E r \in CallRefs : CallToIndex(r)
    \/ \E str \in {"y"} : Intern(str)

SpecPool == PoolInit /\ [][PoolNext]_vars

(***************************************************************************)
(* assemble(tree): the inputs.  A tree holds constant bindings (slot,      *)
(* value), fields (name, desc, constant value or none) and methods (name,  *)
(* desc, statements); every statement here is an ('ins', label,            *)
(* instruction) line, there are no directives, no flags, no interfaces,    *)
(* addLineNumbers and jasmode are off.                                     *)
(***************************************************************************)
MaxConsts == 2

Line(lbl, ins) == [lbl |-> lbl, ins |-> ins]
\* the statements a body is drawn from: with and without a label, a label
\* alone, every instruction form, known (L0) and unknown (L1) targets, and
\* lookupswitch tables with unsorted keys and with a key listed twice
Lines ==
    { Line(l, i) : l \in {NoneKey, "L0"},
                   i \in { NoIns,
                           Ins("ldc", <<>>, 6, ""),
                           Ins("goto", <<>>, NoRef, "L1"),
                           TableSwitch(0, <<"L0">>, "L0") } }
    \cup
    { Line(NoneKey, i) :
        i \in { Ins("nop", <<>>, NoRef, ""),
                Ins("bipush", <<5>>, NoRef, ""),
                Ins("goto", <<>>, NoRef, "L0"),
                LookupSwitch(<< <<2, "L0">>, <<1, "L0">> >>, "L0"),
                LookupSwitch(<< <<2, "L0">>, <<1, "L0">>, <<2, "L0">> >>, "L0"),
                Wide("iinc", <<1, 2>>) } }
Bodies == UNION {[1..n -> Lines] : n \in 0..MaxStmts}

MethodOf(b) == [name |-> 7, desc |-> 8, body |-> b]
FieldOf(n, d, c) == [name |-> n, desc |-> d, const |-> c]
\* the class and its superclass: this, super
ClassRefs == <<9, 9>>

\* one method whose body varies, its constant s1 bound to Utf8 "x"; and trees
\* whose constant bindings (a = Utf8 "x", b = [a], [5] = Utf8 "x") and fields vary
Trees ==
    {[consts |-> << <<6, 4>> >>, fields |-> <<>>, methods |-> <<MethodOf(b)>>] :
        b \in Bodies}
    \cup
    {[consts |-> c, fields |-> f, methods |-> m] :
        c \in UNION {[1..n -> {<<2, 4>>, <<3, 2>>, <<1, 4>>}] : n \in 0..MaxConsts},
        f \in {<<>>, <<FieldOf(4, 8, NoRef)>>, <<FieldOf(4, 8, 2)>>},
        m \in {<<>>, <<MethodOf(<<Line(NoneKey, Ins("bipush", <<5>>, NoRef, ""))>>)>>}}

(***************************************************************************)
(* assemble(tree), one step per loop iteration.                            *)
(***************************************************************************)
AsmFrame == UNCHANGED <<callVars, structVars>>

AfterFields(t) == IF Len(t.methods) > 0 THEN "method" ELSE "class"
AfterConsts(t) == IF Len(t.fields) > 0 THEN "field" ELSE AfterFields(t)
AfterMethod(t, m) == IF m < Len(t.methods) THEN "method" ELSE "class"

\* lines 182-193
Init ==
    /\ tree \in Trees
    /\ pc = "const" /\ ci = 1 /\ fi = 1 /\ mi = 1 /\ li = 1
    /\ fields = <<>> /\ methods = <<>> /\ class_code = NoClass
    /\ err = "none" /\ errmsg = NoMsg
    /\ index = InitIndex
    /\ lbls = [l \in PoolLabels |-> NoRef]
    /\ cpool = <<>>
    /\ last = NoCall("none")
    /\ first_index = [r \in RefIds |-> NoneIdx]
    /\ CodeIdle /\ StructIdle

\* an exception leaves assemble: nothing is returned
Raise(exc, msg, ix, pl) ==
    /\ pc' = "failed" /\ err' = exc /\ errmsg' = msg
    /\ index' = ix /\ cpool' = pl

PoolExc(res) == IF res.err = "RecursivePoolRef" THEN "AssemblerError" ELSE res.err
PoolMsg(res) ==
    [NoMsg EXCEPT !.text = IF res.err = "RecursivePoolRef" THEN res.err ELSE "",
                  !.names = res.msg]

\* x.toIndex(pool) for each x of refs, left to right
ResolveAll(refs, ix, pl) == resolveArgs(refs, 1, PState(ix, pl), <<>>, {}, MaxDepth)

\* line 196: slot.index is not None
slotIsDirectNever(slot) == FALSE
slotIsDirect(slot) == RefTable[slot].index # NoneIdx

\* lines 195-199, one binding; past the last one the loop is left
ConstStep ==
    /\ pc = "const"
    /\ IF ci > Len(tree.consts)
       THEN /\ pc' = AfterConsts(tree)
            /\ UNCHANGED <<ci, lbls, index, cpool, err, errmsg>>
       ELSE LET slot == tree.consts[ci][1]
                value == tree.consts[ci][2]
            IN  IF slotIsDirect(slot)
                THEN /\ Raise("AssemblerError",
                              [NoMsg EXCEPT !.text = "UnsupportedAssignment"],
                              index, cpool)
                     /\ UNCHANGED <<ci, lbls>>
                ELSE /\ lbls' = [lbls EXCEPT ![RefTable[slot].lbl] = value]
                     /\ ci' = ci + 1
                     /\ UNCHANGED <<pc, index, cpool, err, errmsg>>
    /\ UNCHANGED <<tree, fi, mi, li, fields, methods, class_code, codeVars>>
    /\ AsmFrame

\* lines 201-214, one field
FieldStep ==
    /\ pc = "field"
    /\ LET f == tree.fields[fi]
           a == ResolveAll(<<f.name, f.desc>>, index, cpool)
           cv == Utf8(a.s.cpool, "ConstantValue")
           c == Resolve(f.const, a.s.index, cv.pool)
       IN  IF a.err # "none"
           THEN /\ Raise(PoolExc(a), PoolMsg(a), a.s.index, a.s.cpool)
                /\ UNCHANGED <<fi, fields>>
           ELSE IF f.const = NoRef
           THEN /\ fields' = Append(fields,
                        PackBytes(<<"H", "H", "H", "H">>, <<0, a.val[1], a.val[2], 0>>))
                /\ index' = a.s.index /\ cpool' = a.s.cpool
                /\ fi' = fi + 1
                /\ pc' = IF fi < Len(tree.fields) THEN "field" ELSE AfterFields(tree)
                /\ UNCHANGED <<err, errmsg>>
           ELSE IF c.err # "none"
           THEN /\ Raise(PoolExc(c), PoolMsg(c), c.s.index, c.s.cpool)
                /\ UNCHANGED <<fi, fields>>
           ELSE /\ fields' = Append(fields,
                        PackBytes(<<"H", "H", "H", "H">>, <<0, a.val[1], a.val[2], 1>>)
                        \o PackBytes(<<"H", "I", "H">>, <<cv.val, 2, c.val>>))
                /\ index' = c.s.index /\ cpool' = c.s.cpool
                /\ fi' = fi + 1
                /\ pc' = IF fi < Len(tree.fields) THEN "field" ELSE AfterFields(tree)
                /\ UNCHANGED <<err, errmsg>>
    /\ UNCHANGED <<tree, ci, mi, li, lbls, methods, class_code, codeVars>>
    /\ AsmFrame

\* lines 217-225 and assembleCodeAttr lines 131-139: the header of a method;
\* a method without statements has no code attribute
MethodBegin ==
    /\ pc = "method"
    /\ LET m == tree.methods[mi]
           a == ResolveAll(<<m.name, m.desc>>, index, cpool)
       IN  IF a.err # "none"
           THEN /\ Raise(PoolExc(a), PoolMsg(a), a.s.index, a.s.cpool)
                /\ UNCHANGED <<mi, methods>>
           ELSE /\ index' = a.s.index /\ cpool' = a.s.cpool
                /\ UNCHANGED <<err, errmsg>>
                /\ IF m.body = <<>>
                   THEN /\ methods' = Append(methods,
                               PackBytes(<<"H", "H", "H", "H">>,
                                         <<0, a.val[1], a.val[2], 0>>))
                        /\ mi' = mi + 1
                        /\ pc' = AfterMethod(tree, mi)
                   ELSE /\ pc' = "layout"
                        /\ UNCHANGED <<mi, methods>>
    /\ li' = 1 /\ labels' = <<>> /\ offsets' = <<>> /\ pos' = 0
    /\ code_bytes' = <<>> /\ emit_at' = <<>>
    /\ UNCHANGED <<tree, ci, fi, lbls, fields, class_code, emitted>>
    /\ AsmFrame

\* labels[lbl] = pos
SetLabel(lbs, lbl, p) ==
    [k \in DOMAIN lbs \cup {lbl} |-> IF k = lbl THEN p ELSE lbs[k]]

\* assembleCodeAttr lines 140-144, one statement
LayoutStep ==
    /\ pc = "layout"
    /\ LET ln == tree.methods[mi].body[li] IN
       /\ labels' = SetLabel(labels, ln.lbl, pos)
       /\ IF ln.ins # NoIns
          THEN /\ offsets' = Append(offsets, pos)
               /\ pos' = pos + getInstrLen(ln.ins, pos)
          ELSE UNCHANGED <<offsets, pos>>
    /\ IF li < Len(tree.methods[mi].body)
       THEN li' = li + 1 /\ pc' = "layout"
       ELSE li' = 1 /\ pc' = "emit"
    /\ UNCHANGED <<tree, ci, fi, mi, fields, methods, class_code, err, errmsg>>
    /\ UNCHANGED <<poolVars, code_bytes, emitted, emit_at>>
    /\ AsmFrame

\* assembleCodeAttr lines 147-149, one statement
EmitStep ==
    /\ pc = "emit"
    /\ LET ln == tree.methods[mi].body[li]
           r == assembleInstruction(ln.ins, labels, Len(code_bytes), index, cpool)
           more == IF li < Len(tree.methods[mi].body) THEN "emit" ELSE "attr"
       IN  IF ln.ins = NoIns
           THEN /\ pc' = more
                /\ UNCHANGED <<index, cpool, err, errmsg, labels, code_bytes,
                               emitted, emit_at>>
           ELSE /\ emitted' = [k |-> Len(emit_at) + 1, pos |-> Len(code_bytes),
                               ins |-> ln.ins, exc |-> r.exc, bytes |-> r.bytes,
                               labels |-> labels]
                /\ emit_at' = IF r.exc = "none" THEN Append(emit_at, Len(code_bytes))
                              ELSE emit_at
                /\ labels' = r.labels
                /\ IF r.exc # "none"
                   THEN /\ Raise(r.exc,
                                 [text |-> r.text, lbl |-> r.lbl,
                                  defined |-> DOMAIN r.labels, names |-> r.names],
                                 r.index, r.cpool)
                        /\ UNCHANGED code_bytes
                   ELSE /\ code_bytes' = code_bytes \o r.bytes
                        /\ index' = r.index /\ cpool' = r.cpool
                        /\ pc' = more
                        /\ UNCHANGED <<err, errmsg>>
    /\ li' = li + 1
    /\ UNCHANGED <<tree, ci, fi, mi, lbls, fields, methods, class_code, offsets, pos>>
    /\ AsmFrame

\* assembleCodeAttr lines 151-179 without directives and line numbers, and
\* assemble lines 226-229
CodeAttrFinish ==
    /\ pc = "attr"
    /\ LET m == tree.methods[mi]
           code == Utf8(cpool, "Code")
           attr_len == 12 + Len(code_bytes)
           assembled_bytes ==
               PackBytes(<<"H", "I", "H", "H", "I">>,
                         <<code.val, attr_len, 65535, 65535, Len(code_bytes)>>)
               \o code_bytes \o PackBytes(<<"H">>, <<0>>) \o PackBytes(<<"H">>, <<0>>)
       IN  /\ cpool' = code.pool
           /\ methods' = Append(methods,
                  PackBytes(<<"H", "H", "H", "H">>, <<0, index[m.name], index[m.desc], 1>>)
                  \o assembled_bytes)
    /\ mi' = mi + 1
    /\ pc' = AfterMethod(tree, mi)
    /\ UNCHANGED <<tree, ci, fi, li, index, lbls, fields, class_code, err, errmsg, codeVars>>
    /\ AsmFrame

\* lines 231-257; the bytes of the constant pool (ConstPool.bytes) are kept as
\* the pool they serialise
ClassFinish ==
    /\ pc = "class"
    /\ LET a == ResolveAll(ClassRefs, index, cpool) IN
       IF a.err # "none"
       THEN /\ Raise(PoolExc(a), PoolMsg(a), a.s.index, a.s.cpool)
            /\ UNCHANGED class_code
       ELSE /\ index' = a.s.index /\ cpool' = a.s.cpool
            /\ pc' = "done"
            /\ class_code' =
                 [made |-> TRUE,
                  head |-> <<202, 254, 186, 190>> \o PackBytes(<<"H", "H">>, <<0, 49>>),
                  pool |-> a.s.cpool,
                  tail |-> PackBytes(<<"H", "H", "H">>, <<0, a.val[1], a.val[2]>>)
                           \o PackBytes(<<"H">>, <<0>>)
                           \o PackBytes(<<"H">>, <<Len(fields)>>) \o Concat(fields)
                           \o PackBytes(<<"H">>, <<Len(methods)>>) \o Concat(methods)
                           \o PackBytes(<<"H">>, <<0>>)]
            /\ UNCHANGED <<err, errmsg>>
    /\ UNCHANGED <<tree, ci, fi, mi, li, lbls, fields, methods, codeVars>>
    /\ AsmFrame

Next ==
    \/ ConstStep
    \/ FieldStep
    \/ MethodBegin
    \/ LayoutStep
    \/ EmitStep
    \/ CodeAttrFinish
    \/ ClassFinish

Spec == Init /\ [][Next]_vars

(***************************************************************************)
(* Claims on the pool.                                                     *)
(***************************************************************************)
\* the bindings a = [b] and b = [a], neither reference resolved before the call
CycleAB ==
    /\ lbls["a"] = 3 /\ lbls["b"] = 2
    /\ last.pre[2] = NoneIdx /\ last.pre[3] = NoneIdx

\* C7: with a bound to [b] and b bound to [a], resolving [a] or [b] fails
\* with the recursive-constant-pool-reference error, and its message (the
\* forbidden tuple) names both a and b.
C7_LabelCycle ==
    (last.op = "toIndex" /\ last.ref \in {2, 3} /\ CycleAB)
        => /\ last.err = "RecursivePoolRef"
           /\ {"a", "b"} \subseteq Range(last.msg)

C7_Witness ==
    /\ last.op = "toIndex" /\ last.ref = 2 /\ CycleAB
    /\ last.err = "RecursivePoolRef" /\ last.msg = <<"a", "b">>

\* C8: whenever a label is reached again while its own resolution is still
\* running, by labelled references or by sub-references of structural ones,
\* resolution fails with the recursive-reference error and recurses no further.
C8_ForbiddenFlows ==
    last.op = "toIndex" => ~last.missed /\ last.err # "RuntimeError"

\* C9: once a reference has resolved, every later toIndex call on it returns
\* that same index, interns nothing and looks no label up, whatever was bound
\* or interned in between.
C9_Idempotent ==
    (last.op = "toIndex" /\ last.had # NoneIdx)
        => /\ last.err = "none" /\ last.val = last.had
           /\ ~last.grew /\ ~last.looked

\* [a] resolved, a was then bound to another reference of another index, and
\* [a] was resolved again
C9_Witness ==
    /\ last.op = "toIndex" /\ last.ref = 2 /\ last.had # NoneIdx
    /\ lbls["a"] # NoRef
    /\ index[lbls["a"]] # NoneIdx /\ index[lbls["a"]] # last.val

(***************************************************************************)
(* Claims on the code attribute and on assemble.                           *)
(***************************************************************************)
\* an instruction was emitted: assembleInstruction returned its bytes
Emitted == emitted.k > 0 /\ emitted.exc = "none"

\* C1: the bytes assembleInstruction returns for an instruction at pos are
\* getInstrLen(instr, pos) long, for every instruction form.
C1_RoundLength ==
    Emitted => Len(emitted.bytes) = getInstrLen(emitted.ins, emitted.pos)

\* C2: the k-th instruction is emitted at the offset the layout pass recorded
\* for it.
C2_SameOffsets ==
    \A k \in 1..Len(emit_at) : emit_at[k] = offsets[k]

IsSwitch(ins) == ins.op \in {"tableswitch", "lookupswitch"}

\* C3: a switch whose opcode is at pos has (3 - pos) mod 4 zero bytes after
\* the opcode, so that its default offset starts at a multiple of 4; a
\* tableswitch is 13 + padding + 4 * cases long, 19 at pos 1 with one case.
C3_Alignment ==
    (Emitted /\ IsSwitch(emitted.ins)) =>
        LET padding == (3 - emitted.pos) % 4
            b == emitted.bytes
            ins == emitted.ins
        IN  /\ Len(b) >= 1 + padding + 4
            /\ \A i \in 2..(1 + padding) : b[i] = 0
            /\ (emitted.pos + 1 + padding) % 4 = 0
            /\ SubSeq(b, 2 + padding, 5 + padding)
                   = PackBytes(<<"i">>, <<emitted.labels[ins.dflt] - emitted.pos>>)
            /\ ins.op = "tableswitch" => Len(b) = 13 + padding + 4 * Len(ins.tjumps)
            /\ ins.op = "lookupswitch" =>
                   Len(b) = 9 + padding
                            + 8 * Cardinality({ins.ljumps[i][1] : i \in 1..Len(ins.ljumps)})
            /\ (ins.op = "tableswitch" /\ emitted.pos = 1 /\ Len(ins.tjumps) = 1)
                   => padding = 2 /\ Len(b) = 19

C3_Witness ==
    /\ Emitted /\ emitted.ins.op = "tableswitch" /\ emitted.pos = 1
    /\ Len(emitted.ins.tjumps) = 1 /\ Len(emitted.bytes) = 19

\* C4: a code-label operand is encoded as label_table[target] - pos, pos
\* being the offset the layout pass recorded for the instruction.
C4_LabelOffsets ==
    Emitted =>
        LET ins == emitted.ins
            b == emitted.bytes
            at == offsets[emitted.k]
            padding == (3 - emitted.pos) % 4
        IN  /\ ins.op = "goto" =>
                   SubSeq(b, 2, 3) = PackBytes(<<"h">>, <<emitted.labels[ins.lbl] - at>>)
            /\ IsSwitch(ins) =>
                   SubSeq(b, 2 + padding, 5 + padding)
                       = PackBytes(<<"i">>, <<emitted.labels[ins.dflt] - at>>)
            /\ ins.op = "tableswitch" =>
                   \A i \in 1..Len(ins.tjumps) :
                       SubSeq(b, 10 + padding + 4 * i, 13 + padding + 4 * i)
                           = PackBytes(<<"i">>, <<emitted.labels[ins.tjumps[i]] - at>>)

\* the method body of S1, its constant s1 bound to Utf8 "x", fully emitted
S1Body ==
    << Line("L0", Ins("ldc", <<>>, 6, "")),
       Line(NoneKey, Ins("bipush", <<5>>, NoRef, "")),
       Line(NoneKey, Ins("goto", <<>>, NoRef, "L0")) >>
S1Emitted ==
    /\ tree.consts = << <<6, 4>> >>
    /\ tree.methods = <<MethodOf(S1Body)>>
    /\ pc \in {"attr", "class", "done"}

\* C5 as stated: S1 emits 12 03 10 05 A7 FF FB, the goto carrying -5.
C5_S1AsStated ==
    S1Emitted => code_bytes = <<18, 3, 16, 5, 167, 255, 251>>

\* C5, amended: S1 emits 12 03 10 05 A7 FF FC, the goto carrying -4, the
\* offset of L0 (0) minus the offset of the goto's own opcode (4).
C5_S1Bytes ==
    S1Emitted => code_bytes = <<18, 3, 16, 5, 167, 255, 252>>

C5_Witness ==
    S1Emitted /\ pc = "done" /\ index[6] = 3 /\ labels["L0"] = 0 /\ offsets = <<0, 2, 4>>

\* C6: an instruction with a label operand the method does not define makes
\* assembly fail with the undefined-label AssemblerError, which names the
\* label and the defined labels, and nothing is produced; this whether all,
\* some or none of the statements carry a label.
C6_UndefinedLabel ==
    (emitted.k > 0 /\ Undefined(LabelsOf(emitted.ins), emitted.labels) # {}) =>
        /\ pc = "failed"
        /\ err = "AssemblerError" /\ errmsg.text = "UndefinedLabel"
        /\ errmsg.lbl = FirstUndefined(LabelsOf(emitted.ins), emitted.labels)
        /\ errmsg.defined = DOMAIN emitted.labels \ {NoneKey}
        /\ methods = <<>> /\ ~class_code.made

\* a constant binding of the tree assigns to a direct index
DirectSlot(t) == \E i \in 1..Len(t.consts) : RefTable[t.consts[i][1]].index # NoneIdx

\* C10: with a constant binding whose slot is a direct index, assemble fails
\* with the unsupported-assignment error in the binding loop: no field, no
\* method and no class bytes are produced, nothing is interned, and nothing
\* is returned.
C10_Unsupported ==
    DirectSlot(tree) =>
        /\ pc \in {"const", "failed"}
        /\ pc = "const" =>
               \E i \in ci..Len(tree.consts) : RefTable[tree.consts[i][1]].index # NoneIdx
        /\ pc = "failed" => err = "AssemblerError" /\ errmsg.text = "UnsupportedAssignment"
        /\ fields = <<>> /\ methods = <<>> /\ ~class_code.made /\ cpool = <<>>

\* the second binding is the direct one, the first was bound, and the tree has
\* a field and a method that were never reached
C10_Witness ==
    /\ DirectSlot(tree) /\ pc = "failed" /\ ci = 2
    /\ lbls[RefTable[tree.consts[1][1]].lbl] # NoRef
    /\ Len(tree.fields) > 0 /\ Len(tree.methods) > 0

(***************************************************************************)
(* Restructurer, src/Krakatau/java/structuring.py.                         *)
(*                                                                         *)
(* A CFG node is a record of graph; node n is graph[n] and a new node gets *)
(* the next index.  jump is the terminator of the node's block ("none":    *)
(* the node has no block), succ and pred are the successor and predecessor *)
(* lists, outvars and eassigns the key sets of the two dictionaries, hand  *)
(* the (handler node, exception set) pairs of an on-exception terminator.  *)
(* An ExceptionSet is the set of the exception types it holds; Super gives *)
(* the direct supertype of a type (0: none).                               *)
(***************************************************************************)
NoNode == 0

Node(jump, succ, hand) ==
    [jump |-> jump, succ |-> succ, pred |-> <<>>, outvars |-> Range(succ),
     eassigns |-> {}, hand |-> hand]

\* list.remove(x)
ListRemove(s, x) ==
    LET i == CHOOSE i \in 1..Len(s) : s[i] = x /\ \A j \in 1..(i - 1) : s[j] # x
    IN  SubSeq(s, 1, i - 1) \o SubSeq(s, i + 1, Len(s))

\* [n for n in s if not n in temp and not temp.add(n)]
FirstSeen(s, temp) ==
    LET RECURSIVE walk(_, _)
        walk(r, seen) ==
            IF r = <<>> THEN <<>>
            ELSE IF Head(r) \in seen THEN walk(Tail(r), seen)
            ELSE <<Head(r)>> \o walk(Tail(r), seen \cup {Head(r)})
    IN  walk(s, temp)

\* position of x in the list s (list.index)
IndexOf(s, x) == CHOOSE i \in 1..Len(s) : s[i] = x /\ \A j \in 1..(i - 1) : s[j] # x

\* the list s sorted by the integer key[x], stable
SortedBy(s, key) ==
    LET RECURSIVE ins(_, _)
        ins(r, x) ==
            IF r = <<>> THEN <<x>>
            ELSE IF key[Head(r)] <= key[x] THEN <<Head(r)>> \o ins(Tail(r), x)
            ELSE <<x>> \o r
        RECURSIVE srt(_, _)
        srt(r, acc) == IF r = <<>> THEN acc ELSE srt(Tail(r), ins(acc, Head(r)))
    IN  srt(s, <<>>)

\* graph_util.topologicalSort(roots, getParents): depth-first post-order with
\* an explicit stack; getParents is a function from node to list
topologicalSort(roots, getParents) ==
    LET RECURSIVE walk(_, _, _)
        walk(stk, visited, results) ==
            IF stk = <<>> THEN results
            ELSE LET top == stk[Len(stk)]
                     rest == SubSeq(stk, 1, Len(stk) - 1)
                     ps == getParents[top[1]]
                 IN  IF top[2] = 1 THEN walk(rest, visited, Append(results, top[1]))
                     ELSE IF top[1] \in visited THEN walk(rest, visited, results)
                     ELSE walk(rest \o <<<<top[1], 1>>>> \o [i \in 1..Len(ps) |-> <<ps[i], 0>>],
                               visited \cup {top[1]}, results)
    IN  walk([i \in 1..Len(roots) |-> <<roots[i], 0>>], {}, <<>>)

\* graph_util.tarjanSCC(roots, getChildren): the list of the strongly
\* connected components, each a list of nodes
tarjanSCC(roots, getChildren) ==
    LET N == Len(getChildren)
        Min2(a, b) == IF a < b THEN a ELSE b
        RECURSIVE low(_, _, _, _)
        low(cs, cur, ix, ll) ==
            IF cs = <<>> THEN ll[cur]
            ELSE LET c == Head(cs)
                     v == IF ix[c] <= ix[cur] THEN Min2(ll[cur], ix[c])
                          ELSE Min2(ll[cur], ll[c])
                 IN  low(Tail(cs), cur, ix, [ll EXCEPT ![cur] = v])
        RECURSIVE walk(_, _, _, _, _, _, _)
        walk(stk, ix, ll, removed, subtree, sccs, counter) ==
            IF stk = <<>> THEN sccs
            ELSE LET top == stk[Len(stk)]
                     cur == top[1]
                     rest == SubSeq(stk, 1, Len(stk) - 1)
                     cs == SelectSeq(getChildren[cur], LAMBDA c : c \notin removed)
                 IN  IF top[2] = 0
                     THEN IF ix[cur] >= 0
                          THEN walk(rest, ix, ll, removed, subtree, sccs, counter)
                          ELSE walk(rest \o <<<<cur, 1>>>> \o [i \in 1..Len(cs) |-> <<cs[i], 0>>],
                                    [ix EXCEPT ![cur] = counter], [ll EXCEPT ![cur] = counter],
                                    removed, Append(subtree, cur), sccs, counter + 1)
                     ELSE LET l == low(cs, cur, ix, ll)
                              ll2 == [ll EXCEPT ![cur] = l]
                          IN  IF ix[cur] = l
                              THEN LET sccpos == IndexOf(subtree, cur)
                                       scc == SubSeq(subtree, sccpos, Len(subtree))
                                   IN  walk(rest, ix, ll2, removed \cup Range(scc),
                                            SubSeq(subtree, 1, sccpos - 1), Append(sccs, scc), counter)
                              ELSE walk(rest, ix, ll2, removed, subtree, sccs, counter)
    IN  walk([i \in 1..Len(roots) |-> <<roots[i], 0>>], [n \in 1..N |-> -1],
             [n \in 1..N |-> -1], {}, <<>>, <<>>, 0)

(***************************************************************************)
(* DominatorInfo, lines 33-66.  _doms is a function on the nodes of the    *)
(* graph, with the empty tuple for a node that is not a key.               *)
(***************************************************************************)
\* line 43 with the longest common prefix instead of the intersection
MeetPrefix(old, new) ==
    LET k == CHOOSE k \in 0..Len(old) :
                 /\ k <= Len(new)
                 /\ \A i \in 1..k : old[i] = new[i]
                 /\ (k < Len(old) /\ k < Len(new) => old[k + 1] # new[k + 1])
    IN  IF k = Len(old) THEN old ELSE Append(SubSeq(old, 1, k), new[Len(new)])

\* line 43: tuple(x for x in old if x in new)
Meet(old, new) == SelectSeq(old, LAMBDA x : x \in Range(new))

\* lines 38-48: one iteration of `while stack`
Relax(g, d) ==
    LET cur == d.stack[Len(d.stack)]
        RECURSIVE children(_, _, _)
        children(cs, doms, stk) ==
            IF cs = <<>> THEN [doms |-> doms, stack |-> stk]
            ELSE LET child == Head(cs)
                     old == doms[child]
                     cand == Append(doms[cur], child)
                     new == IF cand # old /\ old # <<>> THEN Meet(old, cand) ELSE cand
                 IN  IF new # old
                     THEN children(Tail(cs), [doms EXCEPT ![child] = new],
                                   IF child \in Range(stk) THEN stk ELSE Append(stk, child))
                     ELSE children(Tail(cs), doms, stk)
    IN  children(g[cur].succ, d.doms, SubSeq(d.stack, 1, Len(d.stack) - 1))

\* lines 35-36
DomStart(g, root) ==
    [doms |-> [n \in 1..Len(g) |-> IF n = root THEN <<root>> ELSE <<>>],
     stack |-> <<root>>]

\* DominatorInfo(root): _doms at the end of the loop
RECURSIVE DomLoop(_, _)
DomLoop(g, d) == IF d.stack = <<>> THEN d.doms ELSE DomLoop(g, Relax(g, d))

DominatorInfo(g, root) == DomLoop(g, DomStart(g, root))

\* lines 55-57: the common dominator of the nodes ns (a set)
dominator(doms, ns) ==
    LET m == CHOOSE m \in {Len(doms[n]) : n \in ns} : \A n \in ns : m <= Len(doms[n])
        same == {i \in 1..m : \A a, b \in ns : doms[a][i] = doms[b][i]}
        i == CHOOSE i \in same : \A j \in same : j <= i
    IN  doms[CHOOSE n \in ns : TRUE][i]

\* lines 59-61
area(doms, node) == {k \in 1..Len(doms) : node \in Range(doms[k])}

\* lines 63-66 with one step along the predecessors instead of the whole
\* topological sort
extendOnce(g, doms, ns) ==
    ns \cup UNION {Range(g[x].pred) : x \in ns \ {dominator(doms, ns)}}

\* lines 63-66 without the closure: the nodes ns alone
extendNothing(g, doms, ns) == ns

\* lines 63-66: the nodes visited by the topological sort from ns along
\* the predecessors, which are not followed at the common dominator
extend(g, doms, ns) ==
    LET d == dominator(doms, ns)
        RECURSIVE grow(_)
        grow(S) ==
            LET T == S \cup UNION {Range(g[x].pred) : x \in S \ {d}}
            IN  IF T = S THEN S ELSE grow(T)
    IN  grow(ns)

(***************************************************************************)
(* Construction of DominatorInfo on its own, one step per iteration of the *)
(* work-list loop, over CFGs of goto, if and return blocks.                *)
(***************************************************************************)
\* number of blocks of the CFGs drawn for the dominator computation
MaxBlocks == 5

\* fills the predecessor lists of a list of blocks from their successors
Wire(bs) ==
    [n \in 1..Len(bs) |->
        [bs[n] EXCEPT !.pred = SelectSeq([m \in 1..Len(bs) |-> m],
                                         LAMBDA m : n \in Range(bs[m].succ))]]

\* the successor lists a block n may have: at most two of n+1, n+2, n-2
SuccLists(n) ==
    LET T == {n + 1, n + 2, n - 2} \cap (1..MaxBlocks)
    IN  {<<>>} \cup {<<t>> : t \in T} \cup {p \in T \X T : p[1] # p[2]}

JumpOf(succ) == IF Len(succ) = 0 THEN "ret" ELSE IF Len(succ) = 1 THEN "goto" ELSE "if"

DomGraphs ==
    LET RECURSIVE choices(_)
        choices(n) ==
            IF n = 0 THEN {<<>>}
            ELSE {Append(f, Node(JumpOf(sl), sl, <<>>)) : f \in choices(n - 1), sl \in SuccLists(n)}
    IN  {Wire(bs) : bs \in choices(MaxBlocks)}

StructRest ==
    /\ nodes = <<>> /\ serr = "none" /\ while_heads = <<>> /\ newtryinfos = <<>>
    /\ condinfos = <<>> /\ cons = <<>> /\ constraints = <<>> /\ ctree = <<>>
    /\ work = <<>> /\ step = <<>>

DomInit ==
    /\ graph \in DomGraphs
    /\ entryNode = 1
    /\ dominfo = DomStart(graph, 1)
    /\ spc = "dom"
    /\ StructRest
    /\ index = InitIndex
    /\ lbls = [l \in PoolLabels |-> NoRef]
    /\ cpool = <<>>
    /\ last = NoCall("none")
    /\ first_index = [r \in RefIds |-> NoneIdx]
    /\ AsmIdle /\ CodeIdle

DomFrame ==
    UNCHANGED <<poolVars, callVars, asmVars, codeVars, graph, nodes, entryNode,
                serr, while_heads, newtryinfos, condinfos, cons, constraints,
                ctree, work, step>>

\* lines 37-48
DomStep ==
    /\ spc = "dom" /\ dominfo.stack # <<>>
    /\ dominfo' = Relax(graph, dominfo)
    /\ spc' = spc
    /\ DomFrame

\* lines 49-50
DomDone ==
    /\ spc = "dom" /\ dominfo.stack = <<>>
    /\ spc' = "domdone"
    /\ dominfo' = dominfo
    /\ DomFrame

DomNext == DomStep \/ DomDone

SpecDom == DomInit /\ [][DomNext]_vars /\ WF_vars(DomNext)


(***************************************************************************)
(* Operations of the CFG nodes (graphproxy).                               *)
(***************************************************************************)
\* BlockProxy.replaceSuccessors(rmap)
replaceSuccessors(nd, rmap) ==
    [nd EXCEPT !.succ = [i \in 1..Len(@) |-> rmap[@[i]]],
               !.outvars = {rmap[k] : k \in @},
               !.hand = [i \in 1..Len(@) |-> [@[i] EXCEPT !.en = rmap[@[i].en]]]]

\* x.indirectEdges(edges): a new node between the nodes edges and x; the new
\* node is the last node of the result
indirectEdges(g, x, edges) ==
    LET new == Len(g) + 1
        rmap == [k \in 1..Len(g) |-> IF k = x THEN new ELSE k]
        RECURSIVE unlink(_, _)
        unlink(ps, es) == IF es = <<>> THEN ps ELSE unlink(ListRemove(ps, Head(es)), Tail(es))
        g1 == [g EXCEPT ![x].pred = unlink(Append(@, new), edges)]
        g2 == [k \in 1..Len(g) |->
                  IF k \in Range(edges) THEN replaceSuccessors(g1[k], rmap) ELSE g1[k]]
    IN  Append(g2, [jump |-> "none", succ |-> <<x>>, pred |-> edges,
                    outvars |-> {x}, eassigns |-> {}, hand |-> <<>>])

\* graphproxy.duplicateNodes(reachable, scc_set): the nodes of reachable are
\* copied; the copies take over the edges that enter them from outside
\* scc_set and the edges among themselves
duplicateNodes(g, reachable, scc_set) ==
    LET dups == [i \in 1..Len(reachable) |-> Len(g) + i]
        isDup(k) == k \in Range(reachable)
        dupOf(k) == dups[IndexOf(reachable, k)]
        temp == UNION {Range(g[n].pred) \ scc_set : n \in Range(reachable)}
        \* the dictionary rmap as a function on the nodes of g: rmap.get(k, k)
        rmap == [k \in 1..Len(g) |-> IF isDup(k) THEN dupOf(k) ELSE k]
        old == [k \in 1..Len(g) |->
                   LET nd == IF k \in temp THEN replaceSuccessors(g[k], rmap) ELSE g[k]
                   IN  IF isDup(k)
                       THEN [nd EXCEPT !.pred = SelectSeq(@, LAMBDA q : q \notin temp)]
                       ELSE nd]
        copy(i) ==
            LET n == reachable[i]
                kept == SelectSeq(g[n].pred, LAMBDA q : isDup(q) \/ q \in temp)
            IN  [replaceSuccessors(g[n], rmap) EXCEPT
                    !.pred = [j \in 1..Len(kept) |-> IF isDup(kept[j]) THEN dupOf(kept[j]) ELSE kept[j]]]
        g1 == old \o [i \in 1..Len(reachable) |-> copy(i)]
        \* the copies enter the predecessor lists of their other successors
        RECURSIVE link(_, _, _)
        link(gg, i, ss) ==
            IF i > Len(dups) THEN gg
            ELSE IF ss = <<>>
                 THEN IF i = Len(dups) THEN gg ELSE link(gg, i + 1, gg[dups[i + 1]].succ)
            ELSE LET t == Head(ss)
                 IN  IF t \notin Range(dups) /\ dups[i] \notin Range(gg[t].pred)
                     THEN link([gg EXCEPT ![t].pred = Append(@, dups[i])], i, Tail(ss))
                     ELSE link(gg, i, Tail(ss))
    IN  IF dups = <<>> THEN g ELSE link(g1, 1, g1[dups[1]].succ)

(***************************************************************************)
(* structureLoops, lines 121-151.                                          *)
(***************************************************************************)
\* lines 125-150: one iteration of `while todo`; w holds the graph, the list
\* nodes, todo and while_heads, and exc the exception raised
loopsRound(w) ==
    LET temp == Range(w.todo)
        sccs == tarjanSCC(w.todo, [n \in 1..Len(w.graph) |->
                    IF n \in temp THEN SelectSeq(w.graph[n].pred, LAMBDA x : x \in temp)
                    ELSE <<>>])
        RECURSIVE each(_, _, _)
        each(ss, a, newtodo) ==
            IF ss = <<>> THEN [a EXCEPT !.todo = newtodo]
            ELSE IF Len(Head(ss)) <= 1 THEN each(Tail(ss), a, newtodo)
            ELSE LET scc == Head(ss)
                     scc_set == Range(scc)
                     entries == SelectSeq(scc, LAMBDA n : ~(Range(a.graph[n].pred) \subseteq scc_set))
                 IN  IF entries = <<>> THEN [a EXCEPT !.exc = "IndexError"]
                     ELSE LET head == entries[Len(entries)]
                              others == SelectSeq(entries, LAMBDA n : n # head)
                              reachable == topologicalSort(others,
                                  [n \in 1..Len(a.graph) |->
                                      SelectSeq(a.graph[n].succ, LAMBDA x : x \in scc_set /\ x # head)])
                              g2 == IF others = <<>> THEN a.graph
                                    ELSE duplicateNodes(a.graph, reachable, scc_set)
                              newnodes == [i \in 1..(Len(g2) - Len(a.graph)) |-> Len(a.graph) + i]
                          IN  each(Tail(ss),
                                   [a EXCEPT !.graph = g2, !.nodes = @ \o newnodes,
                                             !.while_heads = Append(@, head)],
                                   ListRemove(newtodo \o newnodes \o scc, head))
    IN  each(sccs, w, <<>>)


(***************************************************************************)
(* Exception sets: a set of exception types; Super is the class hierarchy  *)
(* (0: no superclass).                                                     *)
(***************************************************************************)
Super == <<2, 0, 0>>

\* the integers of S in ascending order
Ascending(S) ==
    LET RECURSIVE asc(_)
        asc(T) == IF T = {} THEN <<>>
                  ELSE LET m == CHOOSE m \in T : \A x \in T : m <= x
                       IN  <<m>> \o asc(T \ {m})
    IN  asc(S)

\* structureExceptions without line 188: n is not put in the predecessors of
\* the new node
structureExceptionsOneWay(g0, nodes0) ==
    LET thrownodes == SelectSeq(nodes0, LAMBDA n : g0[n].jump = "exc")
        \* ExceptionSet.fromTops: the type top and all its subtypes
        RECURSIVE isSub(_, _)
        isSub(t, top) == IF t = 0 THEN FALSE ELSE IF t = top THEN TRUE ELSE isSub(Super[t], top)
        fromTops(top) == {t \in 1..Len(Super) : isSub(t, top)}
        \* ExceptionSet.getTopTTs: the types of cset whose superclass is not in cset
        getTopTTs(cset) == Ascending({t \in cset : Super[t] \notin cset})
        \* lines 185-192 for the types tops of one handler en of n
        RECURSIVE tops(_, _, _, _)
        tops(a, n, en, tt) ==
            IF tt = <<>> THEN a
            ELSE LET g1 == indirectEdges(a.graph, en, <<>>)
                     new == Len(g1)
                     g2 == [g1 EXCEPT ![n].succ = Append(@, new),
                                      ![n].eassigns = @ \cup {new}]
                 IN  tops([a EXCEPT !.graph = g2, !.nodes = Append(@, new),
                                    !.tryinfos = Append(@, [top |-> fromTops(Head(tt)), target |-> new])],
                          n, en, Tail(tt))
        \* lines 171-192 for the handlers hs of n
        RECURSIVE handlers(_, _, _)
        handlers(a, n, hs) ==
            IF hs = <<>> THEN a
            ELSE LET en == Head(hs).en
                     g1 == [a.graph EXCEPT ![en].pred = ListRemove(@, n),
                                           ![n].succ = ListRemove(@, en),
                                           ![n].outvars = @ \ {en}]
                 IN  handlers(tops([a EXCEPT !.graph = g1,
                                             !.csets = Append(@, [en |-> en, cset |-> Head(hs).cset])],
                                   n, en, getTopTTs(Head(hs).cset)),
                              n, Tail(hs))
        RECURSIVE each(_, _)
        each(a, ns) ==
            IF ns = <<>> THEN [graph |-> a.graph, nodes |-> a.nodes, newinfos |-> a.newinfos]
            ELSE LET n == Head(ns)
                     hs == a.graph[n].hand
                     r == handlers([a EXCEPT !.csets = <<>>, !.tryinfos = <<>>], n, hs)
                 IN  each([r EXCEPT !.newinfos = Append(@,
                              [n |-> n, mask |-> UNION {hs[i].cset : i \in 1..Len(hs)},
                               csets |-> r.csets, tryinfos |-> r.tryinfos])],
                          Tail(ns))
    IN  each([graph |-> g0, nodes |-> nodes0, newinfos |-> <<>>, csets |-> <<>>, tryinfos |-> <<>>],
             thrownodes)

\* structureExceptions without line 176: the handler stays in n.successors
structureExceptionsKeepEdge(g0, nodes0) ==
    LET thrownodes == SelectSeq(nodes0, LAMBDA n : g0[n].jump = "exc")
        \* ExceptionSet.fromTops: the type top and all its subtypes
        RECURSIVE isSub(_, _)
        isSub(t, top) == IF t = 0 THEN FALSE ELSE IF t = top THEN TRUE ELSE isSub(Super[t], top)
        fromTops(top) == {t \in 1..Len(Super) : isSub(t, top)}
        \* ExceptionSet.getTopTTs: the types of cset whose superclass is not in cset
        getTopTTs(cset) == Ascending({t \in cset : Super[t] \notin cset})
        \* lines 185-192 for the types tops of one handler en of n
        RECURSIVE tops(_, _, _, _)
        tops(a, n, en, tt) ==
            IF tt = <<>> THEN a
            ELSE LET g1 == indirectEdges(a.graph, en, <<>>)
                     new == Len(g1)
                     g2 == [g1 EXCEPT ![new].pred = Append(@, n),
                                      ![n].succ = Append(@, new),
                                      ![n].eassigns = @ \cup {new}]
                 IN  tops([a EXCEPT !.graph = g2, !.nodes = Append(@, new),
                                    !.tryinfos = Append(@, [top |-> fromTops(Head(tt)), target |-> new])],
                          n, en, Tail(tt))
        \* lines 171-192 for the handlers hs of n
        RECURSIVE handlers(_, _, _)
        handlers(a, n, hs) ==
            IF hs = <<>> THEN a
            ELSE LET en == Head(hs).en
                     g1 == [a.graph EXCEPT ![en].pred = ListRemove(@, n),
                                           ![n].outvars = @ \ {en}]
                 IN  handlers(tops([a EXCEPT !.graph = g1,
                                             !.csets = Append(@, [en |-> en, cset |-> Head(hs).cset])],
                                   n, en, getTopTTs(Head(hs).cset)),
                              n, Tail(hs))
        RECURSIVE each(_, _)
        each(a, ns) ==
            IF ns = <<>> THEN [graph |-> a.graph, nodes |-> a.nodes, newinfos |-> a.newinfos]
            ELSE LET n == Head(ns)
                     hs == a.graph[n].hand
                     r == handlers([a EXCEPT !.csets = <<>>, !.tryinfos = <<>>], n, hs)
                 IN  each([r EXCEPT !.newinfos = Append(@,
                              [n |-> n, mask |-> UNION {hs[i].cset : i \in 1..Len(hs)},
                               csets |-> r.csets, tryinfos |-> r.tryinfos])],
                          Tail(ns))
    IN  each([graph |-> g0, nodes |-> nodes0, newinfos |-> <<>>, csets |-> <<>>, tryinfos |-> <<>>],
             thrownodes)

(***************************************************************************)
(* structureExceptions, lines 153-194.  The result holds the graph, the    *)
(* list nodes and newinfos.                                                *)
(***************************************************************************)
structureExceptions(g0, nodes0) ==
    LET thrownodes == SelectSeq(nodes0, LAMBDA n : g0[n].jump = "exc")
        \* ExceptionSet.fromTops: the type top and all its subtypes
        RECURSIVE isSub(_, _)
        isSub(t, top) == IF t = 0 THEN FALSE ELSE IF t = top THEN TRUE ELSE isSub(Super[t], top)
        fromTops(top) == {t \in 1..Len(Super) : isSub(t, top)}
        \* ExceptionSet.getTopTTs: the types of cset whose superclass is not in cset
        getTopTTs(cset) == Ascending({t \in cset : Super[t] \notin cset})
        \* lines 185-192 for the types tops of one handler en of n
        RECURSIVE tops(_, _, _, _)
        tops(a, n, en, tt) ==
            IF tt = <<>> THEN a
            ELSE LET g1 == indirectEdges(a.graph, en, <<>>)
                     new == Len(g1)
                     g2 == [g1 EXCEPT ![new].pred = Append(@, n),
                                      ![n].succ = Append(@, new),
                                      ![n].eassigns = @ \cup {new}]
                 IN  tops([a EXCEPT !.graph = g2, !.nodes = Append(@, new),
                                    !.tryinfos = Append(@, [top |-> fromTops(Head(tt)), target |-> new])],
                          n, en, Tail(tt))
        \* lines 171-192 for the handlers hs of n
        RECURSIVE handlers(_, _, _)
        handlers(a, n, hs) ==
            IF hs = <<>> THEN a
            ELSE LET en == Head(hs).en
                     g1 == [a.graph EXCEPT ![en].pred = ListRemove(@, n),
                                           ![n].succ = ListRemove(@, en),
                                           ![n].outvars = @ \ {en}]
                 IN  handlers(tops([a EXCEPT !.graph = g1,
                                             !.csets = Append(@, [en |-> en, cset |-> Head(hs).cset])],
                                   n, en, getTopTTs(Head(hs).cset)),
                              n, Tail(hs))
        RECURSIVE each(_, _)
        each(a, ns) ==
            IF ns = <<>> THEN [graph |-> a.graph, nodes |-> a.nodes, newinfos |-> a.newinfos]
            ELSE LET n == Head(ns)
                     hs == a.graph[n].hand
                     r == handlers([a EXCEPT !.csets = <<>>, !.tryinfos = <<>>], n, hs)
                 IN  each([r EXCEPT !.newinfos = Append(@,
                              [n |-> n, mask |-> UNION {hs[i].cset : i \in 1..Len(hs)},
                               csets |-> r.csets, tryinfos |-> r.tryinfos])],
                          Tail(ns))
    IN  each([graph |-> g0, nodes |-> nodes0, newinfos |-> <<>>, csets |-> <<>>, tryinfos |-> <<>>],
             thrownodes)

(***************************************************************************)
(* structureConditionals, lines 196-253.  The result holds the graph, the  *)
(* list nodes, switchinfos, ifinfos and the exception raised.              *)
(***************************************************************************)
structureConditionals(g0, nodes0, entry) ==
    LET doms == DominatorInfo(g0, entry)
        switchnodes == SelectSeq(nodes0, LAMBDA n : g0[n].jump = "switch")
        ifnodes == SelectSeq(nodes0, LAMBDA n : g0[n].jump = "if")
        \* lines 239-242 and 249-250: x.indirectEdges([n]) for each x of xs
        RECURSIVE indirect(_, _, _)
        indirect(a, n, xs) ==
            IF xs = <<>> THEN a
            ELSE LET g1 == indirectEdges(a.graph, Head(xs), <<n>>)
                 IN  indirect([graph |-> g1, news |-> Append(a.news, Len(g1))], n, Tail(xs))
        \* lines 205-244 for the switch node n
        switch(a, n) ==
            LET g == a.graph
                targets == g[n].succ
                \* lines 239-244
                record(bad, ordered, ind) ==
                    IF Len(ordered) + Len(bad) # Len(targets)
                    THEN [a EXCEPT !.exc = "AssertionError"]
                    ELSE [a EXCEPT !.graph = ind.graph, !.nodes = @ \o ind.news,
                                   !.switchinfos =
                                       Append(@, [n |-> n, ordered |-> ordered \o ind.news])]
                \* lines 231-236
                listed(parents, bad, fwd) ==
                    record(bad, [i \in 1..Len(fwd) |-> fwd[Len(fwd) + 1 - i]],
                           indirect([graph |-> g, news |-> <<>>], n, bad))
                \* lines 225-228: ValueError when leaves.remove raises it
                leaved(parents, good, bad, lv) ==
                    LET RECURSIVE chain(_)
                        chain(cur) ==
                            IF parents[cur] = <<>> THEN <<cur>>
                            ELSE <<cur>> \o chain(parents[cur][1])
                        RECURSIVE chains(_)
                        chains(ls) ==
                            IF ls = <<>> THEN <<>> ELSE chain(Head(ls)) \o chains(Tail(ls))
                    IN  IF ~lv.ok THEN [a EXCEPT !.exc = "ValueError"]
                        ELSE listed(parents, bad, chains(lv.leaves))
                pruned(parents, good, bad) ==
                    LET RECURSIVE strip(_, _)
                        strip(leaves, vs) ==
                            IF vs = <<>> THEN [ok |-> TRUE, leaves |-> leaves]
                            ELSE IF parents[Head(vs)] = <<>> THEN strip(leaves, Tail(vs))
                            ELSE IF parents[Head(vs)][1] \notin Range(leaves)
                                 THEN [ok |-> FALSE, leaves |-> leaves]
                            ELSE strip(ListRemove(leaves, parents[Head(vs)][1]), Tail(vs))
                    IN  leaved(parents, good, bad, strip(good, good))
                \* lines 217-221
                sorted(parents, good0, bad0, depthfirst) ==
                    LET RECURSIVE prune(_, _, _)
                        prune(ts, good, bad) ==
                            IF ts = <<>> THEN [good |-> good, bad |-> bad]
                            ELSE IF Len(parents[Head(ts)]) > 1
                                    \/ \E x \in Range(parents[Head(ts)]) : x \notin Range(good)
                                 THEN prune(Tail(ts), ListRemove(good, Head(ts)),
                                            Append(bad, Head(ts)))
                            ELSE prune(Tail(ts), good, bad)
                        both(pr) == pruned(parents, pr.good, pr.bad)
                    IN  both(prune(depthfirst, good0, bad0))
                \* lines 213-215
                related(good0, bad0, parents) ==
                    sorted(parents, good0, bad0,
                           topologicalSort(good0,
                               [k \in 1..Len(g) |->
                                   IF k \in Range(good0) THEN parents[k] ELSE <<>>]))
                \* lines 207-211
                split(bad0, good0) ==
                    related(good0, bad0,
                            [x \in Range(good0) |->
                                SelectSeq(good0, LAMBDA k :
                                    k # x /\ area(doms, k) \cap Range(g[x].pred) # {})])
                divide(bad0) == split(bad0, SelectSeq(targets, LAMBDA x : x \notin Range(bad0)))
            IN  divide(SelectSeq(targets, LAMBDA x : n \notin Range(doms[x])))
        RECURSIVE switches(_, _)
        switches(a, ns) ==
            IF ns = <<>> \/ a.exc # "none" THEN a ELSE switches(switch(a, Head(ns)), Tail(ns))
        RECURSIVE ifs(_, _)
        ifs(a, ns) ==
            IF ns = <<>> \/ a.exc # "none" THEN a
            ELSE LET ind == indirect([graph |-> a.graph, news |-> <<>>], Head(ns), a.graph[Head(ns)].succ)
                 IN  ifs([a EXCEPT !.graph = ind.graph, !.nodes = @ \o ind.news,
                                   !.ifinfos = Append(@, [n |-> Head(ns), targets |-> ind.news])],
                         Tail(ns))
    IN  ifs(switches([graph |-> g0, nodes |-> nodes0, switchinfos |-> <<>>, ifinfos |-> <<>>,
                      exc |-> "none"], switchnodes), ifnodes)


(***************************************************************************)
(* Constraints, lines 73-118.  A constraint is a record; the constraints   *)
(* are kept in the list cons and named by their position in it.            *)
(***************************************************************************)
ScopeConstraint(lbound, ubound) == [lbound |-> lbound, ubound |-> ubound]

\* lines 80-94; forbidden is the set of the pairs <<node, type>>
CompoundConstraint(tag, head, scopes) ==
    [tag |-> tag, head |-> head, scopes |-> scopes,
     forcedup |-> {}, forceddown |-> {},
     lbound |-> UNION {scopes[i].lbound : i \in 1..Len(scopes)}
                    \cup (IF head = NoNode THEN {} ELSE {head}),
     ubound |-> UNION {scopes[i].ubound : i \in 1..Len(scopes)}
                    \cup (IF head = NoNode THEN {} ELSE {head}),
     target |-> NoNode, orig_target |-> NoNode, cset |-> {}, forbidden |-> {}]

\* lines 96-100
WhileCon(g, doms, head) ==
    LET ubound == area(doms, head)
        lbound == extend(g, doms, {head} \cup (Range(g[head].pred) \cap ubound))
    IN  CompoundConstraint("while", NoNode, <<ScopeConstraint(lbound, ubound)>>)

\* lines 102-115
TryCon(g, trynode, target, cset) ==
    [CompoundConstraint("try", NoNode, <<ScopeConstraint({trynode}, {trynode})>>)
        EXCEPT !.target = target, !.cset = cset, !.orig_target = g[target].succ[1]]

\* lines 117-118 with a scope that holds no node
FixedScopeEmpty(lbound) == CompoundConstraint("scope", NoNode, <<ScopeConstraint({}, {})>>)

\* lines 117-118
FixedScopeCon(lbound) == CompoundConstraint("scope", NoNode, <<ScopeConstraint(lbound, lbound)>>)

(***************************************************************************)
(* createConstraints, lines 255-314: the list of the constraints, or the   *)
(* exception raised.                                                       *)
(***************************************************************************)
createConstraints(g, doms, heads, tryinfos, switchinfos, ifinfos) ==
    LET whiles == [i \in 1..Len(heads) |-> WhileCon(g, doms, heads[i])]
        \* lines 260-264: forbid_dicts[ot]
        forbid(ot) ==
            UNION {UNION {IF info.csets[j].en = ot
                          THEN {<<info.n, t>> : t \in info.mask \ info.csets[j].cset}
                          ELSE {} : j \in 1..Len(info.csets)} :
                   info \in {x \in Range(tryinfos) : Len(x.csets) > 1}}
        \* lines 266-288 for the throwing node of info; base is the number of
        \* the constraints made before
        trys(info, base) ==
            LET ti == info.tryinfos
                cs == [i \in 1..Len(ti) |-> TryCon(g, info.n, ti[i].target, ti[i].top)]
                sub(i, j) == i # j /\ cs[i].cset \subseteq cs[j].cset
                down(i) == {j \in 1..Len(cs) : sub(j, i)}
                fb(i) == LET f == forbid(cs[i].orig_target)
                         IN  {p \in f : ~(p[1] = info.n /\ \E j \in down(i) : p[2] \in cs[j].cset)}
            IN  [i \in 1..Len(cs) |->
                    [cs[i] EXCEPT !.forcedup = {base + j : j \in {j \in 1..Len(cs) : sub(i, j)}},
                                  !.forceddown = {base + j : j \in down(i)},
                                  !.forbidden = fb(i)]]
        RECURSIVE alltrys(_, _)
        alltrys(is, acc) ==
            IF is = <<>> THEN acc ELSE alltrys(Tail(is), acc \o trys(Head(is), Len(acc)))
        \* lines 290-303
        switchCon(info) ==
            LET ordered == info.ordered
                RECURSIVE scopesOf(_, _)
                scopesOf(i, lastp) ==
                    IF i = 0 THEN <<>>
                    ELSE LET target == ordered[i]
                             fallthroughs == {x \in Range(lastp) : target \in Range(doms[x])}
                         IN  scopesOf(i - 1, g[target].pred)
                                 \o <<ScopeConstraint(extend(g, doms, {target} \cup fallthroughs),
                                                      area(doms, target))>>
            IN  CompoundConstraint("switch", info.n, scopesOf(Len(ordered), <<>>))
        \* lines 305-312
        ifCon(info) ==
            CompoundConstraint("if", info.n,
                [i \in 1..Len(info.targets) |->
                    ScopeConstraint({info.targets[i]}, area(doms, info.targets[i]))])
        \* the assertions of lines 94, 99, 283, 295 and 300
        ok(c) == /\ c.lbound \subseteq c.ubound
                 /\ c.tag = "while" => Cardinality(c.lbound) > 1
                 /\ c.tag = "try" =>
                       \A p \in c.forbidden : p[1] \in c.lbound => p[2] \notin c.cset
                 /\ c.tag = "switch" =>
                       \A k \in 1..Len(c.scopes) :
                           /\ c.scopes[k].lbound \subseteq c.scopes[k].ubound
                           /\ c.head \notin c.scopes[k].ubound
        created(all) ==
            [cons |-> all,
             exc |-> IF \A i \in 1..Len(all) : ok(all[i]) THEN "none" ELSE "AssertionError"]
    IN  created(alltrys(tryinfos, whiles)
                    \o [i \in 1..Len(switchinfos) |-> switchCon(switchinfos[i])]
                    \o [i \in 1..Len(ifinfos) |-> ifCon(ifinfos[i])])


(***************************************************************************)
(* orderConstraints, lines 316-417.  The loop state w holds todo, frozen   *)
(* and children, a function from the constraints to the lists of their     *)
(* children, with the children of DummyParent at 0.                        *)
(***************************************************************************)
DummyParent == 0

\* the elements of the set S in the order in which iterating over S yields
\* them; ord lists the elements whose order matters, and a set of several
\* elements holds only such elements
IterOrder(S, ord) ==
    IF Cardinality(S) <= 1 THEN Ascending(S) ELSE SelectSeq(ord, LAMBDA x : x \in S)

\* lines 331-352: the connected component of todo[0]
component(g, doms, cs, clist, w, ord) ==
    LET RECURSIVE walk(_, _, _, _, _)
        walk(queue, iset, nset, items, parents) ==
            IF queue = <<>> THEN [items |-> items, nset |-> nset, parents |-> parents]
            ELSE LET item == queue[Len(queue)]
                     rest == SubSeq(queue, 1, Len(queue) - 1)
                     up == IterOrder(cs[item].forcedup \ iset, ord)
                     iset1 == iset \cup Range(up)
                     down == IterOrder(cs[item].forceddown \ iset1, ord)
                     iset2 == iset1 \cup Range(down)
                     grows == ~(cs[item].lbound \subseteq nset)
                     nset2 == IF grows THEN extend(g, doms, nset \cup cs[item].lbound) ELSE nset
                     hits == IF grows
                             THEN SelectSeq(clist, LAMBDA i2 :
                                      nset2 \cap cs[i2].lbound # {} /\ i2 \notin iset2)
                             ELSE <<>>
                 IN  IF item \in w.frozen
                     THEN walk(rest, iset, nset, items, parents \cup {item})
                     ELSE walk(rest \o up \o down \o hits, iset2 \cup Range(hits), nset2,
                               Append(items, item), parents)
    IN  walk(<<w.todo[1]>>, {w.todo[1]}, {}, <<>>, {})

\* lines 356-375: the candidates of line 357, which overwrites the candidates
\* of line 356 and so their condition nset <= ubound, of which every other
\* item falls within a single scope
cscope_assigns(cs, items, nset, frozen) ==
    LET hit(c, i) == {k \in 1..Len(cs[c].scopes) : cs[i].lbound \cap cs[c].scopes[k].ubound # {}}
        fits(c, i) == /\ Cardinality(hit(c, i)) = 1
                      /\ \A k \in hit(c, i) : cs[i].lbound \subseteq cs[c].scopes[k].ubound
        candidates == SelectSeq(items, LAMBDA i : cs[i].forcedup \subseteq frozen)
    IN  SelectSeq(candidates, LAMBDA c : \A i \in Range(items) \ {c} : fits(c, i))

\* lines 331-403: one iteration of `while todo`.  failed: no candidate is
\* left (line 378); exc: an assertion fails
orderPlace(g, doms, cs, clist, w, ord) ==
    LET raised(c) == [cons |-> c, w |-> w, failed |-> FALSE, exc |-> "AssertionError"]
        \* lines 395-403, once the scopes, the lbound and the parent are known
        assign(nset, cnode, added, scopes2, lbound2, parent, cs1, cs2) ==
            LET heads == IF cs[cnode].head = NoNode THEN {} ELSE {cs[cnode].head}
                \* the assertions of lines 384-385, 388-389 and 395-399
                ok2 == \A k \in 1..Len(scopes2) :
                          /\ scopes2[k].lbound \subseteq scopes2[k].ubound
                          /\ added[k] # {} =>
                                extend(g, doms, scopes2[k].lbound) = scopes2[k].lbound
                ok3 == /\ lbound2 \subseteq cs[cnode].ubound
                       /\ lbound2 = heads \cup UNION {scopes2[k].lbound : k \in 1..Len(scopes2)}
                       /\ parent # -1
                       /\ parent # DummyParent => lbound2 \subseteq cs[parent].lbound
            IN  IF ~ok2 THEN raised(cs1)
                ELSE IF ~ok3 THEN raised(cs2)
                ELSE [cons |-> cs2, failed |-> FALSE, exc |-> "none",
                      w |-> [todo |-> ListRemove(w.todo, cnode),
                             frozen |-> w.frozen \cup {cnode},
                             children |-> [w.children EXCEPT ![parent] = Append(@, cnode)]]]
        updated(nset, cnode, added, scopes2, lbound2, parent, cs1) ==
            assign(nset, cnode, added, scopes2, lbound2, parent, cs1,
                   [cs1 EXCEPT ![cnode].lbound = lbound2])
        scoped(nset, cnode, added, scopes2, parent) ==
            updated(nset, cnode, added, scopes2, cs[cnode].lbound \cup nset, parent,
                    [cs EXCEPT ![cnode].scopes = scopes2])
        \* lines 381-393 for the chosen constraint cnode
        chosen(items, nset, parents, cnode, added) ==
            LET RECURSIVE lowest(_)
                lowest(p) ==
                    LET temp == parents \cap Range(w.children[p])
                    IN  IF temp = {} THEN p
                        ELSE IF Cardinality(temp) # 1 THEN -1
                        ELSE lowest(CHOOSE c \in temp : TRUE)
            IN  scoped(nset, cnode, added,
                       [k \in 1..Len(cs[cnode].scopes) |->
                           [cs[cnode].scopes[k] EXCEPT !.lbound = @ \cup added[k]]],
                       lowest(DummyParent))
        choose(items, nset, parents, cnode) ==
            chosen(items, nset, parents, cnode,
                   [k \in 1..Len(cs[cnode].scopes) |->
                       UNION {cs[i].lbound : i \in {i \in Range(items) \ {cnode} :
                                 cs[i].lbound \cap cs[cnode].scopes[k].ubound # {}}}])
        \* lines 354-380
        decide(items, nset, parents, assigns) ==
            IF nset = {} \/ nset # extend(g, doms, nset) THEN raised(cs)
            ELSE IF assigns = <<>> THEN [cons |-> cs, w |-> w, failed |-> TRUE, exc |-> "none"]
            ELSE choose(items, nset, parents, assigns[Len(assigns)])
        place(comp) ==
            decide(comp.items, comp.nset, comp.parents,
                   cscope_assigns(cs, comp.items, comp.nset, w.frozen))
    IN  place(component(g, doms, cs, clist, w, ord))


\* lines 405-417: the nesting assertions and the root of the tree
orderReturn(cs, w, ns) ==
    LET ch == w.children
        RECURSIVE disjoint(_, _)
        disjoint(v, temp) ==
            IF v = <<>> THEN TRUE
            ELSE cs[Head(v)].lbound \cap temp = {} /\ disjoint(Tail(v), temp \cup cs[Head(v)].lbound)
        ok == \A k \in DOMAIN ch :
                  /\ disjoint(ch[k], {})
                  /\ k # DummyParent =>
                        UNION {cs[c].lbound : c \in Range(ch[k])} \subseteq cs[k].lbound
        croot == Len(cs) + 1
    IN  [cons |-> Append(cs, FixedScopeCon(Range(ns))),
         tree |-> [croot |-> croot,
                   children |-> [k \in 0..croot |->
                                    IF k = croot THEN ch[DummyParent]
                                    ELSE IF k = DummyParent THEN <<>> ELSE ch[k]]],
         exc |-> IF ok THEN "none" ELSE "AssertionError"]


(***************************************************************************)
(* mergeExceptions, lines 419-650.  The loop state m holds parents (a      *)
(* function from the constraints to their parents, -1 where there is no    *)
(* key), children, trycons, removed, good, the position i in trycons, the  *)
(* list candidates2 and the position j in it.                              *)
(***************************************************************************)
\* tryExtend with line 461 taking con.forbidden itself instead of a copy of
\* it: what unforbid removes is removed from con.forbidden even when the
\* call returns False at line 498
tryExtendShared(g, doms, cs, m, con, con2, nord) ==
    LET forceddown0 == cs[con].forceddown \cup cs[con2].forceddown
        forcedup == (cs[con].forcedup \cup cs[con2].forcedup) \ {con}
        oldparent == m.parents[con]
        \* lines 445-450: the parent that holds the body, 0 when the body
        \* leaves con.ubound on the way
        RECURSIVE climb(_, _)
        climb(body, parent) ==
            IF body \subseteq cs[parent].lbound THEN [body |-> body, parent |-> parent, ok |-> TRUE]
            ELSE IF ~(body \cup cs[parent].lbound \subseteq cs[con].ubound)
                 THEN [body |-> body, parent |-> parent, ok |-> FALSE]
            ELSE climb(body \cup cs[parent].lbound, m.parents[parent])
        \* lines 452-454
        RECURSIVE absorb(_, _)
        absorb(body, chs) ==
            IF chs = <<>> THEN body
            ELSE IF cs[Head(chs)].lbound \cap body # {}
                 THEN absorb(body \cup cs[Head(chs)].lbound, Tail(chs))
            ELSE absorb(body, Tail(chs))
        cset == cs[con].cset \cup cs[con2].cset
        \* lines 462-467 for the constraints of the set downs
        unforbid(f, downs) ==
            {q \in f : ~\E d \in downs : q[1] \in cs[d].lbound /\ q[2] \in cs[d].cset}
        at(f, node) == {q[2] : q \in {q \in f : q[1] = node}}
        same(success, exc) ==
            [cons |-> cs, m |-> m, success |-> success, exc |-> exc]
        \* lines 529-532
        finish(cs1, ch3, pa3) ==
            [cons |-> cs1, m |-> [m EXCEPT !.parents = pa3, !.children = ch3],
             success |-> TRUE,
             exc |-> IF \A k \in DOMAIN pa3 :
                           pa3[k] = -1 \/ (k # pa3[k] /\ k \in Range(ch3[pa3[k]]))
                     THEN "none" ELSE "AssertionError"]
        \* lines 521-527
        reparent(parent, cs1, ch2, newchildren) ==
            finish(cs1,
                   [ch2 EXCEPT ![parent] = SelectSeq(@, LAMBDA c : c \notin Range(newchildren)),
                               ![con] = newchildren],
                   [c \in DOMAIN m.parents |->
                       IF c \in Range(newchildren) THEN con
                       ELSE IF c = con THEN parent
                       ELSE IF c \in Range(m.children[con]) THEN oldparent
                       ELSE m.parents[c]])
        moved(parent, body, cs1, ch2) ==
            reparent(parent, cs1, ch2,
                     SelectSeq(ch2[parent], LAMBDA c : c # con /\ cs1[c].lbound \subseteq body))
        \* lines 503-519
        update(parent, body, vis) ==
            moved(parent, body,
                  [c \in 1..Len(cs) |->
                      IF c = con
                      THEN [cs[c] EXCEPT !.lbound = body, !.cset = cset,
                                         !.forbidden = vis.forbidden,
                                         !.forcedup = forcedup, !.forceddown = vis.forceddown]
                      ELSE [cs[c] EXCEPT
                               !.forceddown = IF c \in forcedup THEN @ \cup {con} ELSE @,
                               !.forcedup = IF c \in vis.forceddown THEN @ \cup {con} ELSE @]],
                  [[m.children EXCEPT ![oldparent] = ListRemove(@ \o m.children[con], con)]
                      EXCEPT ![parent] = Append(@, con)])
        visited(parent, body, vis) ==
            IF vis.res = "assert" THEN same(FALSE, "AssertionError")
            ELSE IF vis.res = "false"
                 THEN [cons |-> [cs EXCEPT ![con].forbidden = vis.forbidden], m |-> m,
                       success |-> FALSE, exc |-> "none"]
            ELSE IF vis.forceddown \cap forcedup # {} THEN same(FALSE, "AssertionError")
            ELSE update(parent, body, vis)
        \* lines 456-501
        bodied(parent, body) ==
            LET \* lines 482-495
                RECURSIVE force(_, _, _, _)
                force(cands, node, f, fd) ==
                    IF cands = <<>> THEN [forbidden |-> f, forceddown |-> fd, exc |-> FALSE]
                    ELSE IF Head(cands) \in fd THEN force(Tail(cands), node, f, fd)
                    ELSE LET temp == (cs[Head(cands)].forceddown \ fd) \cup {Head(cands)}
                             f2 == unforbid(f, temp)
                         IN  IF con \in temp
                             THEN [forbidden |-> f2, forceddown |-> fd, exc |-> TRUE]
                             ELSE IF cset \cap at(f2, node) = {}
                                  THEN [forbidden |-> f2, forceddown |-> fd \cup temp,
                                        exc |-> FALSE]
                             ELSE force(Tail(cands), node, f2, fd \cup temp)
                \* lines 473-498; res is "" while the loop goes on
                RECURSIVE visit(_, _, _)
                forced(ns, f, fd, r) ==
                    IF r.exc THEN [forbidden |-> f, forceddown |-> fd, res |-> "assert"]
                    ELSE IF cset \cap at(r.forbidden, Head(ns)) # {}
                         THEN [forbidden |-> r.forbidden, forceddown |-> fd,
                               res |-> IF cset \subseteq cs[con].cset THEN "assert" ELSE "false"]
                    ELSE visit(Tail(ns), r.forbidden, r.forceddown)
                visit(ns, f, fd) ==
                    IF ns = <<>> THEN [forbidden |-> f, forceddown |-> fd, res |-> ""]
                    ELSE IF cset \cap at(f, Head(ns)) = {} THEN visit(Tail(ns), f, fd)
                    ELSE forced(ns, f, fd,
                                force(SelectSeq(m.trycons, LAMBDA c :
                                          /\ Head(ns) \in cs[c].lbound
                                          /\ cs[c].lbound \subseteq body
                                          /\ cs[c].cset \cap cset \cap at(f, Head(ns)) # {}
                                          /\ c \notin forcedup /\ c # con),
                                      Head(ns), f, fd))
            IN  IF body # extend(g, doms, body) THEN same(FALSE, "AssertionError")
                ELSE IF ~(body \subseteq cs[con].ubound) THEN same(FALSE, "none")
                ELSE visited(parent, body,
                             visit(IterOrder(body, nord),
                                   unforbid(cs[con].forbidden, forceddown0 \ cs[con].forceddown),
                                   forceddown0))
        climbed(cl) ==
            IF ~cl.ok
            THEN [cons |-> [cs EXCEPT ![con].ubound = @ \cap cs[cl.parent].lbound], m |-> m,
                  success |-> FALSE, exc |-> "none"]
            ELSE bodied(cl.parent, absorb(cl.body, m.children[cl.parent]))
    IN  IF con \in forceddown0 THEN same(FALSE, "AssertionError")
        ELSE IF forcedup \cap forceddown0 # {} THEN same(FALSE, "none")
        ELSE climbed(climb(extend(g, doms, cs[con].lbound \cup cs[con2].lbound), oldparent))


\* lines 427-532, tryExtend(con, con2); nord is the order in which the
\* nodes of a set are iterated over
tryExtend(g, doms, cs, m, con, con2, nord) ==
    LET forceddown0 == cs[con].forceddown \cup cs[con2].forceddown
        forcedup == (cs[con].forcedup \cup cs[con2].forcedup) \ {con}
        oldparent == m.parents[con]
        \* lines 445-450: the parent that holds the body, 0 when the body
        \* leaves con.ubound on the way
        RECURSIVE climb(_, _)
        climb(body, parent) ==
            IF body \subseteq cs[parent].lbound THEN [body |-> body, parent |-> parent, ok |-> TRUE]
            ELSE IF ~(body \cup cs[parent].lbound \subseteq cs[con].ubound)
                 THEN [body |-> body, parent |-> parent, ok |-> FALSE]
            ELSE climb(body \cup cs[parent].lbound, m.parents[parent])
        \* lines 452-454
        RECURSIVE absorb(_, _)
        absorb(body, chs) ==
            IF chs = <<>> THEN body
            ELSE IF cs[Head(chs)].lbound \cap body # {}
                 THEN absorb(body \cup cs[Head(chs)].lbound, Tail(chs))
            ELSE absorb(body, Tail(chs))
        cset == cs[con].cset \cup cs[con2].cset
        \* lines 462-467 for the constraints of the set downs
        unforbid(f, downs) ==
            {q \in f : ~\E d \in downs : q[1] \in cs[d].lbound /\ q[2] \in cs[d].cset}
        at(f, node) == {q[2] : q \in {q \in f : q[1] = node}}
        same(success, exc) ==
            [cons |-> cs, m |-> m, success |-> success, exc |-> exc]
        \* lines 529-532
        finish(cs1, ch3, pa3) ==
            [cons |-> cs1, m |-> [m EXCEPT !.parents = pa3, !.children = ch3],
             success |-> TRUE,
             exc |-> IF \A k \in DOMAIN pa3 :
                           pa3[k] = -1 \/ (k # pa3[k] /\ k \in Range(ch3[pa3[k]]))
                     THEN "none" ELSE "AssertionError"]
        \* lines 521-527
        reparent(parent, cs1, ch2, newchildren) ==
            finish(cs1,
                   [ch2 EXCEPT ![parent] = SelectSeq(@, LAMBDA c : c \notin Range(newchildren)),
                               ![con] = newchildren],
                   [c \in DOMAIN m.parents |->
                       IF c \in Range(newchildren) THEN con
                       ELSE IF c = con THEN parent
                       ELSE IF c \in Range(m.children[con]) THEN oldparent
                       ELSE m.parents[c]])
        moved(parent, body, cs1, ch2) ==
            reparent(parent, cs1, ch2,
                     SelectSeq(ch2[parent], LAMBDA c : c # con /\ cs1[c].lbound \subseteq body))
        \* lines 503-519
        update(parent, body, vis) ==
            moved(parent, body,
                  [c \in 1..Len(cs) |->
                      IF c = con
                      THEN [cs[c] EXCEPT !.lbound = body, !.cset = cset,
                                         !.forbidden = vis.forbidden,
                                         !.forcedup = forcedup, !.forceddown = vis.forceddown]
                      ELSE [cs[c] EXCEPT
                               !.forceddown = IF c \in forcedup THEN @ \cup {con} ELSE @,
                               !.forcedup = IF c \in vis.forceddown THEN @ \cup {con} ELSE @]],
                  [[m.children EXCEPT ![oldparent] = ListRemove(@ \o m.children[con], con)]
                      EXCEPT ![parent] = Append(@, con)])
        visited(parent, body, vis) ==
            IF vis.res = "assert" THEN same(FALSE, "AssertionError")
            ELSE IF vis.res = "false" THEN same(FALSE, "none")
            ELSE IF vis.forceddown \cap forcedup # {} THEN same(FALSE, "AssertionError")
            ELSE update(parent, body, vis)
        \* lines 456-501
        bodied(parent, body) ==
            LET \* lines 482-495
                RECURSIVE force(_, _, _, _)
                force(cands, node, f, fd) ==
                    IF cands = <<>> THEN [forbidden |-> f, forceddown |-> fd, exc |-> FALSE]
                    ELSE IF Head(cands) \in fd THEN force(Tail(cands), node, f, fd)
                    ELSE LET temp == (cs[Head(cands)].forceddown \ fd) \cup {Head(cands)}
                             f2 == unforbid(f, temp)
                         IN  IF con \in temp
                             THEN [forbidden |-> f2, forceddown |-> fd, exc |-> TRUE]
                             ELSE IF cset \cap at(f2, node) = {}
                                  THEN [forbidden |-> f2, forceddown |-> fd \cup temp,
                                        exc |-> FALSE]
                             ELSE force(Tail(cands), node, f2, fd \cup temp)
                \* lines 473-498; res is "" while the loop goes on
                RECURSIVE visit(_, _, _)
                forced(ns, f, fd, r) ==
                    IF r.exc THEN [forbidden |-> f, forceddown |-> fd, res |-> "assert"]
                    ELSE IF cset \cap at(r.forbidden, Head(ns)) # {}
                         THEN [forbidden |-> f, forceddown |-> fd,
                               res |-> IF cset \subseteq cs[con].cset THEN "assert" ELSE "false"]
                    ELSE visit(Tail(ns), r.forbidden, r.forceddown)
                visit(ns, f, fd) ==
                    IF ns = <<>> THEN [forbidden |-> f, forceddown |-> fd, res |-> ""]
                    ELSE IF cset \cap at(f, Head(ns)) = {} THEN visit(Tail(ns), f, fd)
                    ELSE forced(ns, f, fd,
                                force(SelectSeq(m.trycons, LAMBDA c :
                                          /\ Head(ns) \in cs[c].lbound
                                          /\ cs[c].lbound \subseteq body
                                          /\ cs[c].cset \cap cset \cap at(f, Head(ns)) # {}
                                          /\ c \notin forcedup /\ c # con),
                                      Head(ns), f, fd))
            IN  IF body # extend(g, doms, body) THEN same(FALSE, "AssertionError")
                ELSE IF ~(body \subseteq cs[con].ubound) THEN same(FALSE, "none")
                ELSE visited(parent, body,
                             visit(IterOrder(body, nord),
                                   unforbid(cs[con].forbidden, forceddown0 \ cs[con].forceddown),
                                   forceddown0))
        climbed(cl) ==
            IF ~cl.ok
            THEN [cons |-> [cs EXCEPT ![con].ubound = @ \cap cs[cl.parent].lbound], m |-> m,
                  success |-> FALSE, exc |-> "none"]
            ELSE bodied(cl.parent, absorb(cl.body, m.children[cl.parent]))
    IN  IF con \in forceddown0 THEN same(FALSE, "AssertionError")
        ELSE IF forcedup \cap forceddown0 # {} THEN same(FALSE, "none")
        ELSE climbed(climb(extend(g, doms, cs[con].lbound \cup cs[con2].lbound), oldparent))


\* lines 420-425 and 534-539
mergeStart(cs, clist, children) ==
    LET parents == [c \in 1..Len(cs) |->
                       IF \E k \in DOMAIN children : c \in Range(children[k])
                       THEN CHOOSE k \in DOMAIN children : c \in Range(children[k])
                       ELSE -1]
        topoorder == topologicalSort(clist,
                         [c \in 1..Len(cs) |-> IF parents[c] # -1 THEN <<parents[c]>> ELSE <<>>])
        pos_in == [c \in 1..Len(cs) |-> IF c \in Range(topoorder) THEN IndexOf(topoorder, c) ELSE 0]
    IN  [parents |-> parents, children |-> children,
         trycons |-> SortedBy(SelectSeq(clist, LAMBDA c : cs[c].tag = "try"), pos_in),
         removed |-> {}, good |-> {}, i |-> 1, cands |-> <<>>, j |-> 0]

\* lines 540-557 for con = trycons[i]: con.ubound and candidates2
mergeCon(g, ns, doms, cs, m) ==
    LET con == m.trycons[m.i]
        tryhead == CHOOSE n \in cs[con].lbound : \A x \in cs[con].lbound : n <= x
        backnodes == Range(doms[tryhead])
        catchreach == topologicalSort(<<cs[con].target>>,
            [n \in 1..Len(g) |-> SelectSeq(g[n].succ, LAMBDA x : x \notin backnodes)])
        ubound == Range(ns) \ Range(catchreach)
        candidates2 == SelectSeq(m.trycons, LAMBDA c :
                           /\ c \notin m.removed /\ cs[c].orig_target = cs[con].orig_target
                           /\ cs[c].lbound \subseteq ubound /\ c # con)
    IN  IF con \in m.removed
        THEN [cons |-> cs, m |-> [m EXCEPT !.i = @ + 1], exc |-> "none"]
        ELSE [cons |-> [cs EXCEPT ![con].ubound = ubound],
              m |-> [m EXCEPT !.cands = candidates2, !.j = 1, !.good = {}],
              exc |-> IF Cardinality(cs[con].lbound) = 1 /\ cs[con].lbound \subseteq ubound
                      THEN "none" ELSE "AssertionError"]

\* lines 572-580 without the tests of lines 575-580: the tests on the forced
\* sets and on cset are left out
coveredByBody(cs, con, con2) == cs[con2].lbound \subseteq cs[con].lbound

\* lines 572-579: con2 is covered by con
covered(cs, con, con2) ==
    /\ cs[con2].lbound \subseteq cs[con].lbound
    /\ cs[con2].forceddown \subseteq cs[con].forceddown \cup {con, con2}
    /\ cs[con2].forcedup \subseteq cs[con].forcedup \cup {con, con2}
    /\ cs[con2].cset \subseteq cs[con].cset

\* lines 570-596 for con = trycons[i]
mergeRemove(cs, m) ==
    LET con == m.trycons[m.i]
        RECURSIVE each(_, _)
        each(c2s, a) ==
            IF c2s = <<>> \/ a.exc # "none" THEN a
            ELSE LET con2 == Head(c2s)
                     parent == a.m.parents[con2]
                 IN  IF ~covered(a.cons, con, con2) THEN each(Tail(c2s), a)
                     ELSE IF con2 \notin a.m.good THEN [a EXCEPT !.exc = "AssertionError"]
                     ELSE each(Tail(c2s),
                            [cons |-> [c \in 1..Len(a.cons) |->
                                          IF c \in Range(a.m.trycons)
                                          THEN [a.cons[c] EXCEPT !.forcedup = @ \ {con2},
                                                                 !.forceddown = @ \ {con2}]
                                          ELSE a.cons[c]],
                             m |-> [a.m EXCEPT
                                      !.removed = @ \cup {con2},
                                      !.children = [k \in DOMAIN @ |->
                                          IF k = parent
                                          THEN ListRemove(@[k] \o @[con2], con2)
                                          ELSE IF k = con2 THEN <<>> ELSE @[k]],
                                      !.parents = [c \in DOMAIN @ |->
                                          IF c = con2 THEN -1
                                          ELSE IF c \in Range(a.m.children[con2]) THEN parent
                                          ELSE @[c]]],
                             exc |-> "none"])
        r == each(m.cands, [cons |-> cs, m |-> m, exc |-> "none"])
    IN  [cons |-> r.cons, m |-> [r.m EXCEPT !.i = @ + 1, !.cands = <<>>, !.j = 0],
         exc |-> IF r.exc = "none" /\ ~(r.m.good \subseteq r.m.removed)
                 THEN "AssertionError" ELSE r.exc]

\* lines 598-650 without line 623: the removed nodes stay in the predecessor
\* lists
mergeCleanupKeepPreds(g, ns, cs, clist, m) ==
    LET removed_nodes == {cs[c].target : c \in m.removed}
        clist2 == SelectSeq(clist, LAMBDA c : c \notin m.removed)
        trycons == SelectSeq(m.trycons, LAMBDA c : c \notin m.removed)
        cs2 == [c \in 1..Len(cs) |->
                   IF c \notin Range(clist2) THEN cs[c]
                   ELSE LET lb == cs[c].lbound \ removed_nodes
                            ub == cs[c].ubound \ removed_nodes
                        IN  [cs[c] EXCEPT
                               !.lbound = lb, !.ubound = ub,
                               !.forcedup = IF cs[c].tag = "try" THEN @ \ m.removed ELSE @,
                               !.forceddown = IF cs[c].tag = "try" THEN @ \ m.removed ELSE @,
                               !.scopes = IF cs[c].tag = "try"
                                          THEN <<ScopeConstraint(lb, ub)>>
                                          ELSE [k \in 1..Len(@) |->
                                                   ScopeConstraint(@[k].lbound \ removed_nodes,
                                                                   @[k].ubound \ removed_nodes)]]]
        nodes2 == SelectSeq(ns, LAMBDA n : n \notin removed_nodes)
        \* lines 628-636 for a node: the targets it throws to
        temp(n) == {g[k].succ[1] : k \in g[n].eassigns}
        thrown(n) == SelectSeq(trycons, LAMBDA c :
                         n \in cs2[c].lbound /\ cs2[c].orig_target \in temp(n))
        ea(n) == IF g[n].eassigns = {} THEN <<>>
                 ELSE [k \in 1..Len(thrown(n)) |-> cs2[thrown(n)[k]].target]
        newpreds(t) == SelectSeq(nodes2, LAMBDA n : t \in Range(ea(n)) /\ n \notin Range(g[t].pred))
        g2 == [n \in 1..Len(g) |->
                  IF n \notin Range(nodes2) THEN g[n]
                  ELSE [g[n] EXCEPT
                          !.pred = @ \o newpreds(n),
                          !.succ = SelectSeq(@, LAMBDA x : x \in g[n].outvars) \o ea(n),
                          !.eassigns = Range(ea(n))]]
        ok == /\ \A n \in Range(nodes2) : Cardinality(Range(ea(n))) >= Cardinality(temp(n))
              /\ \A c \in Range(clist2) :
                    /\ cs2[c].lbound \subseteq Range(nodes2) /\ cs2[c].ubound \subseteq Range(nodes2)
                    /\ \A k \in 1..Len(cs2[c].scopes) :
                          /\ cs2[c].scopes[k].lbound \subseteq Range(nodes2)
                          /\ cs2[c].scopes[k].ubound \subseteq Range(nodes2)
    IN  [graph |-> g2, nodes |-> nodes2, cons |-> cs2, constraints |-> clist2,
         exc |-> IF ok THEN "none" ELSE "AssertionError"]

\* lines 598-650: the constraints, the nodes and the graph without the
\* removed constraints and their targets
mergeCleanup(g, ns, cs, clist, m) ==
    LET removed_nodes == {cs[c].target : c \in m.removed}
        clist2 == SelectSeq(clist, LAMBDA c : c \notin m.removed)
        trycons == SelectSeq(m.trycons, LAMBDA c : c \notin m.removed)
        cs2 == [c \in 1..Len(cs) |->
                   IF c \notin Range(clist2) THEN cs[c]
                   ELSE LET lb == cs[c].lbound \ removed_nodes
                            ub == cs[c].ubound \ removed_nodes
                        IN  [cs[c] EXCEPT
                               !.lbound = lb, !.ubound = ub,
                               !.forcedup = IF cs[c].tag = "try" THEN @ \ m.removed ELSE @,
                               !.forceddown = IF cs[c].tag = "try" THEN @ \ m.removed ELSE @,
                               !.scopes = IF cs[c].tag = "try"
                                          THEN <<ScopeConstraint(lb, ub)>>
                                          ELSE [k \in 1..Len(@) |->
                                                   ScopeConstraint(@[k].lbound \ removed_nodes,
                                                                   @[k].ubound \ removed_nodes)]]]
        nodes2 == SelectSeq(ns, LAMBDA n : n \notin removed_nodes)
        \* lines 628-636 for a node: the targets it throws to
        temp(n) == {g[k].succ[1] : k \in g[n].eassigns}
        thrown(n) == SelectSeq(trycons, LAMBDA c :
                         n \in cs2[c].lbound /\ cs2[c].orig_target \in temp(n))
        ea(n) == IF g[n].eassigns = {} THEN <<>>
                 ELSE [k \in 1..Len(thrown(n)) |-> cs2[thrown(n)[k]].target]
        newpreds(t) == SelectSeq(nodes2, LAMBDA n : t \in Range(ea(n)) /\ n \notin Range(g[t].pred))
        g2 == [n \in 1..Len(g) |->
                  IF n \notin Range(nodes2) THEN g[n]
                  ELSE [g[n] EXCEPT
                          !.pred = SelectSeq(@, LAMBDA x : x \notin removed_nodes) \o newpreds(n),
                          !.succ = SelectSeq(@, LAMBDA x : x \in g[n].outvars) \o ea(n),
                          !.eassigns = Range(ea(n))]]
        ok == /\ \A n \in Range(nodes2) : Cardinality(Range(ea(n))) >= Cardinality(temp(n))
              /\ \A c \in Range(clist2) :
                    /\ cs2[c].lbound \subseteq Range(nodes2) /\ cs2[c].ubound \subseteq Range(nodes2)
                    /\ \A k \in 1..Len(cs2[c].scopes) :
                          /\ cs2[c].scopes[k].lbound \subseteq Range(nodes2)
                          /\ cs2[c].scopes[k].ubound \subseteq Range(nodes2)
    IN  [graph |-> g2, nodes |-> nodes2, cons |-> cs2, constraints |-> clist2,
         exc |-> IF ok THEN "none" ELSE "AssertionError"]


(***************************************************************************)
(* fixTryConstraints, lines 652-676.                                       *)
(***************************************************************************)
fixTryConstraints(doms, cs, clist) ==
    LET fix(con) ==
            LET cscope == ScopeConstraint({con.target}, area(doms, con.target))
                tscope == [con.scopes[1] EXCEPT !.ubound =
                              {x \in @ : \A q \in con.forbidden : q[1] = x => q[2] \notin con.cset}]
            IN  [con EXCEPT !.scopes = <<tscope, cscope>>, !.forbidden = {},
                            !.lbound = tscope.lbound \cup cscope.lbound,
                            !.ubound = tscope.ubound \cup cscope.ubound]
        cs2 == [c \in 1..Len(cs) |->
                   IF c \in Range(clist) /\ cs[c].tag = "try" THEN fix(cs[c]) ELSE cs[c]]
        ok == \A c \in Range(clist) :
                  cs[c].tag = "try" =>
                      /\ cs2[c].scopes[1].lbound \subseteq cs2[c].scopes[1].ubound
                      /\ cs2[c].scopes[1].ubound \cap cs2[c].scopes[2].ubound = {}
    IN  [cons |-> cs2, exc |-> IF ok THEN "none" ELSE "AssertionError"]

(***************************************************************************)
(* The edges without the back edges, lines 1027-1037.                      *)
(***************************************************************************)
successors_nl(g, doms, n) == SelectSeq(g[n].succ, LAMBDA x : x \notin Range(doms[n]))

predecessors_nl(g, doms, n) == SelectSeq(g[n].pred, LAMBDA x : x \notin area(doms, n))

norm_suc_nl(g, doms, n) == SelectSeq(successors_nl(g, doms, n), LAMBDA x : x \in g[n].outvars)

\* the assertions of lines 1033-1037
edgesAgree(g, ns, doms) ==
    \A n \in Range(ns) :
        /\ \A n2 \in Range(successors_nl(g, doms, n)) : n \in Range(predecessors_nl(g, doms, n2))
        /\ \A n2 \in Range(predecessors_nl(g, doms, n)) : n \in Range(successors_nl(g, doms, n2))


(***************************************************************************)
(* _checkNested, lines 981-995.                                            *)
(***************************************************************************)
checkNested(cs, children) ==
    \A k \in DOMAIN children :
        /\ \A c \in Range(children[k]) :
              /\ cs[c].lbound \subseteq cs[k].lbound
              /\ cs[c].lbound \subseteq cs[c].ubound
              /\ Cardinality({i \in 1..Len(cs[k].scopes) :
                                  cs[k].scopes[i].ubound \cap cs[c].lbound # {}}) = 1
              /\ \A i, j \in 1..Len(cs[c].scopes) :
                    i < j => /\ cs[c].scopes[i].lbound \cap cs[c].scopes[j].lbound = {}
                             /\ cs[c].scopes[i].ubound \cap cs[c].scopes[j].ubound = {}
        /\ \A i, j \in 1..Len(children[k]) :
              i < j => cs[children[k][i]].lbound \cap cs[children[k][j]].lbound = {}

(***************************************************************************)
(* completeScopes, lines 700-827.  The loop state w holds stack, parent,   *)
(* revorder and frozen_nodes; the children are those of the tree.          *)
(***************************************************************************)
\* lines 678-698: None (<<>>) when an assertion fails, else <<ubound>>
dominatorUBoundClosure(g, doms, lbound, ubound0) ==
    LET udom == dominator(doms, lbound)
        ub1 == ubound0 \cap area(doms, udom)
        RECURSIVE shrink(_)
        shrink(ub) ==
            LET out == {x \in ub \ {udom} :
                           ~(Range(predecessors_nl(g, doms, x)) \subseteq ub)}
            IN  IF out = {} THEN ub ELSE shrink(ub \ out)
        ub == IF ub1 = lbound THEN ub1 ELSE shrink(ub1)
    IN  IF ub # {} /\ ub = extend(g, doms, ub) /\ lbound \subseteq ub
           /\ udom = dominator(doms, ub)
        THEN <<ub>> ELSE <<>>

\* lines 708-709: the position of the nodes in the topological order
nodeorder(g, doms, root) ==
    LET order == topologicalSort(<<root>>, [n \in 1..Len(g) |-> successors_nl(g, doms, n)])
    IN  [n \in 1..Len(g) |-> IF n \in Range(order) THEN 1 - IndexOf(order, n) ELSE -Len(g)]

\* lines 739-745: the successors of the nodes of S outside S, in order
boundary(g, doms, root, S) ==
    LET sorted == SortedBy(Ascending(S), nodeorder(g, doms, root))
    IN  FirstSeen(Concat([i \in 1..Len(sorted) |-> successors_nl(g, doms, sorted[i])]), S)

\* lines 747-798, Edmonds-Karp for the minimum vertex cut: the nodes seen
\* by the last search and the nodes used
minCut(g, doms, startnodes, endnodes) ==
    LET startset == Range(startnodes)
        endset == Range(endnodes)
        sucs(n) == successors_nl(g, doms, n)
        \* lines 760-784: found is the augmenting path
        RECURSIVE bfs(_, _, _, _)
        bfs(queue, seen, used, backedge) ==
            IF queue = <<>> THEN [found |-> <<>>, seen |-> seen, ok |-> TRUE]
            ELSE LET e == Head(queue)
                     fwd == SelectSeq(sucs(e.pos), LAMBDA x : x \notin Range(e.path))
                     more == [i \in 1..Len(fwd) |->
                                 [pos |-> fwd[i], lastfw |-> TRUE, path |-> Append(e.path, fwd[i])]]
                     back == IF e.pos \notin startset
                             THEN <<[pos |-> backedge[e.pos], lastfw |-> FALSE,
                                     path |-> Append(e.path, backedge[e.pos])]>>
                             ELSE <<>>
                 IN  IF e.pos \in used
                     THEN bfs(Tail(queue) \o back
                                  \o (IF ~e.lastfw /\ e.pos \notin endset THEN more ELSE <<>>),
                              seen \cup {e.pos}, used, backedge)
                     ELSE IF ~e.lastfw THEN [found |-> <<>>, seen |-> seen, ok |-> FALSE]
                     ELSE IF e.pos \in endset
                          THEN [found |-> e.path, seen |-> seen \cup {e.pos}, ok |-> TRUE]
                     ELSE bfs(Tail(queue) \o more, seen \cup {e.pos}, used, backedge)
        \* lines 789-798
        RECURSIVE apply(_, _, _, _)
        apply(path, prev, used, backedge) ==
            IF path = <<>> THEN [used |-> used, backedge |-> backedge, ok |-> TRUE]
            ELSE LET at == Head(path)
                 IN  IF prev \in Range(sucs(at))
                     THEN IF at \in used /\ backedge[at] # prev
                          THEN apply(Tail(path), at, used, backedge)
                          ELSE [used |-> used, backedge |-> backedge, ok |-> FALSE]
                     ELSE IF (prev = NoNode) = (at \in startset)
                          THEN apply(Tail(path), at, used \cup {at}, [backedge EXCEPT ![at] = prev])
                          ELSE [used |-> used, backedge |-> backedge, ok |-> FALSE]
        RECURSIVE flow(_, _)
        flow(used, backedge) ==
            LET free == SelectSeq(startnodes, LAMBDA n : n \notin used)
                r == bfs([i \in 1..Len(free) |-> [pos |-> free[i], lastfw |-> TRUE, path |-> <<free[i]>>]],
                         {}, used, backedge)
                a == apply(r.found, NoNode, used, backedge)
            IN  IF ~r.ok THEN [lastseen |-> {}, used |-> used, ok |-> FALSE]
                ELSE IF r.found = <<>> THEN [lastseen |-> r.seen, used |-> used, ok |-> TRUE]
                ELSE IF ~a.ok THEN [lastseen |-> {}, used |-> used, ok |-> FALSE]
                ELSE flow(a.used, a.backedge)
    IN  flow({}, [n \in 1..Len(g) |-> NoNode])

\* lines 712-717 and 827 with the children sorted the other way round at
\* line 717: the child with the smallest key is popped first
completeParentAscending(g, doms, root, cs, children, w) ==
    LET stack == w.stack \o (IF w.parent = 0 THEN <<>> ELSE children[w.parent])
        parent == stack[Len(stack)]
        order == nodeorder(g, doms, root)
        key == [c \in 1..Len(cs) |->
                   IF c \in Range(children[parent])
                   THEN order[dominator(doms, cs[c].lbound)] * (Len(g) + 1) + Cardinality(cs[c].ubound)
                   ELSE 0]
    IN  IF stack = <<>> THEN [stack |-> <<>>, parent |-> 0, revorder |-> <<>>, frozen_nodes |-> {}]
        ELSE [stack |-> SubSeq(stack, 1, Len(stack) - 1), parent |-> parent,
              revorder |-> [i \in 1..Len(children[parent]) |->
                               SortedBy(children[parent], key)[Len(children[parent]) + 1 - i]],
              frozen_nodes |-> {}]

\* lines 712-717 and 827: the children of the parent just finished go on
\* the stack and the next parent is taken from it
completeParent(g, doms, root, cs, children, w) ==
    LET stack == w.stack \o (IF w.parent = 0 THEN <<>> ELSE children[w.parent])
        parent == stack[Len(stack)]
        order == nodeorder(g, doms, root)
        key == [c \in 1..Len(cs) |->
                   IF c \in Range(children[parent])
                   THEN order[dominator(doms, cs[c].lbound)] * (Len(g) + 1) + Cardinality(cs[c].ubound)
                   ELSE 0]
    IN  IF stack = <<>> THEN [stack |-> <<>>, parent |-> 0, revorder |-> <<>>, frozen_nodes |-> {}]
        ELSE [stack |-> SubSeq(stack, 1, Len(stack) - 1), parent |-> parent,
              revorder |-> SortedBy(children[parent], key), frozen_nodes |-> {}]

\* lines 720-824: one iteration of `while revorder`
completeChild(g, doms, root, cs, children, w) ==
    LET cnode == w.revorder[Len(w.revorder)]
        revorder == SubSeq(w.revorder, 1, Len(w.revorder) - 1)
        parent == w.parent
        same(exc) == [cons |-> cs, children |-> children, exc |-> exc,
                      w |-> [w EXCEPT !.revorder = revorder]]
        \* lines 806-824 and the assertions of lines 785-804
        fill(ubound, cut, interior, body1, body, newchildren) ==
            IF ~cut.ok
               \/ Cardinality(cut.lastseen) - Cardinality(interior) >
                      (IF Len(boundary(g, doms, root, cs[cnode].lbound)) < Cardinality(cut.used)
                       THEN Len(boundary(g, doms, root, cs[cnode].lbound))
                       ELSE Cardinality(cut.used))
               \/ ~(body1 \subseteq ubound) \/ ~(body \subseteq ubound)
               \/ body # extend(g, doms, body)
            THEN same("AssertionError")
            ELSE [cons |-> [cs EXCEPT
                               ![cnode].lbound = body,
                               ![cnode].scopes = [k \in 1..Len(@) |->
                                   [@[k] EXCEPT !.lbound =
                                        @ \cup (body \cap cs[cnode].scopes[k].ubound)]]],
                  children |-> [children EXCEPT
                                   ![cnode] = @ \o newchildren,
                                   ![parent] = SelectSeq(@, LAMBDA c : c \notin Range(newchildren))],
                  exc |-> "none",
                  w |-> [w EXCEPT !.revorder = revorder, !.frozen_nodes = @ \cup body]]
        \* lines 795-802
        RECURSIVE adopt(_, _, _)
        adopt(os, body, new) ==
            IF os = <<>> THEN [body |-> body, newchildren |-> new]
            ELSE IF cs[Head(os)].lbound \cap body # {}
                 THEN adopt(Tail(os), body \cup cs[Head(os)].lbound, Append(new, Head(os)))
            ELSE adopt(Tail(os), body, new)
        adopted(ubound, cut, interior, body1, ad) ==
            fill(ubound, cut, interior, body1, ad.body, ad.newchildren)
        grown(ubound, cut, interior, body1) ==
            adopted(ubound, cut, interior, body1, adopt(revorder, body1, <<>>))
        \* lines 787-793
        inside(ubound, cut, interior) ==
            grown(ubound, cut, interior, extend(g, doms, cs[cnode].lbound \cup interior))
        separated(ubound, cut) ==
            inside(ubound, cut, {x \in cut.lastseen \cap ubound :
                                    Range(successors_nl(g, doms, x)) \subseteq cut.lastseen})
        \* lines 745-785
        capped(ubound) ==
            separated(ubound, minCut(g, doms, boundary(g, doms, root, cs[cnode].lbound),
                                     boundary(g, doms, root, ubound)))
        \* lines 722-743
        closedTo(scopes, ubound0, closed) ==
            IF Cardinality(scopes) # 1 \/ ~(cs[cnode].lbound \subseteq ubound0) \/ closed = <<>>
            THEN same("AssertionError")
            ELSE capped(closed[1])
        bound(scopes, ubound0) ==
            closedTo(scopes, ubound0, dominatorUBoundClosure(g, doms, cs[cnode].lbound, ubound0))
        RECURSIVE others(_, _)
        others(ub, os) ==
            IF os = <<>> THEN ub
            ELSE IF cs[Head(os)].lbound \subseteq ub THEN others(ub, Tail(os))
            ELSE others(ub \ cs[Head(os)].lbound, Tail(os))
        scoped(scopes) ==
            bound(scopes,
                  others((cs[cnode].ubound \cap cs[parent].scopes[CHOOSE k \in scopes : TRUE].lbound)
                             \ w.frozen_nodes, revorder))
    IN  IF cnode \notin Range(children[parent]) THEN same("none")
        ELSE scoped({k \in 1..Len(cs[parent].scopes) :
                        cs[parent].scopes[k].lbound \cap cs[cnode].lbound # {}})


(***************************************************************************)
(* addBreakScopes, lines 829-923.  The loop state is todo, a list of the   *)
(* pairs of a constraint and its successors.                               *)
(***************************************************************************)
\* lines 830-834
getSuccessors(g, doms, pscope, lbound) ==
    (UNION {Range(norm_suc_nl(g, doms, n)) : n \in lbound} \ lbound) \cap pscope.lbound

\* lines 836-854 without line 842: no constraint is put on todo
breakStartEmpty(g, doms, cs, clist, ct) == <<<<>>>>

\* lines 836-854: the constraints with more than one successor, parents
\* first; None (<<>>) when an assertion fails, else <<todo>>
breakStart(g, doms, cs, clist, ct) ==
    LET RECURSIVE visit(_, _)
        visit(todo, cnode) ==
            LET RECURSIVE each(_, _)
                each(acc, chs) ==
                    IF chs = <<>> THEN acc
                    ELSE LET child == Head(chs)
                             ks == {k \in 1..Len(cs[cnode].scopes) :
                                        cs[child].lbound \cap cs[cnode].scopes[k].ubound # {}}
                             pscope == cs[cnode].scopes[CHOOSE k \in ks : TRUE]
                             suc == getSuccessors(g, doms, pscope, cs[child].lbound)
                             here == IF Cardinality(suc) > 1
                                     THEN <<[cnode |-> child, suc |-> suc]>> ELSE <<>>
                         IN  IF Cardinality(ks) # 1 THEN Append(acc, [cnode |-> 0, suc |-> {}])
                             ELSE each(visit(acc \o here, child), Tail(chs))
            IN  each(todo, ct.children[cnode])
        todo == visit(<<>>, ct.croot)
    IN  IF (\E i \in 1..Len(todo) : todo[i].cnode = 0) \/ Len(todo) > Len(clist)
        THEN <<>> ELSE <<todo>>

\* lines 856-923: one iteration of `while todo`, which adds a scope
breakStep(g, doms, root, cs, clist, ct, todo) ==
    LET crosses(b, x) == x \cap b # {} /\ ~(b \subseteq x)
        new == Len(cs) + 1
        \* lines 913-923 and the assertions of lines 886-911
        added(body, afterScope, parent, k, cs1, cs2, moved, children2) ==
            LET todo2 == [i \in 1..Len(todo) |->
                             IF todo[i].cnode \in Range(moved)
                             THEN [todo[i] EXCEPT !.suc = @ \cap body] ELSE todo[i]]
                         \o <<[cnode |-> new,
                               suc |-> getSuccessors(g, doms, cs1[parent].scopes[k], body)]>>
                ok == /\ body = extend(g, doms, body)
                      /\ afterScope \cap body = {}
                      /\ \A c \in Range(clist) :
                            ~(crosses(body, cs[c].lbound) /\ ~(cs[c].lbound \subseteq body))
                      /\ cs1[parent].scopes[k].lbound \subseteq cs1[parent].scopes[k].ubound
                      /\ cs1[parent].lbound \subseteq cs1[parent].ubound
                      /\ \A i, j \in 1..Len(children2[parent]) :
                            i < j => cs2[children2[parent][i]].lbound
                                         \cap cs2[children2[parent][j]].lbound = {}
            IN  [cons |-> cs2, constraints |-> Append(clist, new),
                 tree |-> [ct EXCEPT !.children = children2],
                 todo |-> SelectSeq(todo2, LAMBDA t : Cardinality(t.suc) > 1),
                 exc |-> IF ok THEN "none" ELSE "AssertionError"]
        \* lines 905-911
        adopt(body, afterScope, parent, k, cs1, cs2, moved) ==
            added(body, afterScope, parent, k, cs1, cs2, moved,
                  [c \in 0..new |->
                      IF c = new THEN moved
                      ELSE IF c = parent
                           THEN Append(SelectSeq(ct.children[c],
                                                 LAMBDA x : x \notin Range(moved)), new)
                      ELSE ct.children[c]])
        \* lines 901-904
        newScope(body, afterScope, parent, k, cs1, cs2) ==
            adopt(body, afterScope, parent, k, cs1, cs2,
                  SelectSeq(ct.children[parent], LAMBDA c : cs2[c].lbound \subseteq body))
        grow(body, afterScope, parent, k, cs1) ==
            newScope(body, afterScope, parent, k, cs1, Append(cs1, FixedScopeCon(body)))
        \* lines 891-899
        RECURSIVE enclosing(_, _, _)
        enclosing(body, parent, k) ==
            LET found == {<<c, i>> \in Range(ct.children[parent]) \X (1..3) :
                              i <= Len(cs[c].scopes) /\ body \subseteq cs[c].scopes[i].lbound}
                f == CHOOSE f \in found :
                         \A h \in found :
                             \/ IndexOf(ct.children[parent], h[1]) < IndexOf(ct.children[parent], f[1])
                             \/ (h[1] = f[1] /\ h[2] <= f[2])
            IN  IF found = {} THEN <<parent, k>> ELSE enclosing(body, f[1], f[2])
        within(body, afterScope, enc) ==
            grow(body, afterScope, enc[1], enc[2],
                 [cs EXCEPT ![enc[1]].scopes[enc[2]].lbound = @ \cup body,
                            ![enc[1]].lbound = @ \cup body])
        \* lines 880-889
        bounded(body, afterScope) == within(body, afterScope, enclosing(body, ct.croot, 1))
        widen(body0, afterScope) ==
            bounded(body0 \cup UNION {cs[c].lbound :
                                         c \in {c \in Range(clist) : crosses(body0, cs[c].lbound)}},
                    afterScope)
        \* lines 868-878
        gather(target, afterScope, hit) ==
            widen(extend(g, doms,
                      UNION {cs[todo[i].cnode].lbound : i \in hit}
                          \cup (UNION {todo[i].suc : i \in hit} \ afterScope)
                          \cup Range(predecessors_nl(g, doms, target))),
                  afterScope)
        aim(target) ==
            gather(target,
                   Range(topologicalSort(<<target>>,
                             [n \in 1..Len(g) |-> successors_nl(g, doms, n)])),
                   {i \in 1..Len(todo) : target \in todo[i].suc})
        \* lines 857-866
        count(x) == Cardinality({i \in 1..Len(todo) : x \in todo[i].suc})
        most(sortednodes, candidates) ==
            aim(CHOOSE x \in candidates :
                    \A y \in candidates : IndexOf(sortednodes, x) <= IndexOf(sortednodes, y))
        among(all) ==
            most(topologicalSort(<<root>>, [n \in 1..Len(g) |-> successors_nl(g, doms, n)]),
                 {x \in all : \A y \in all : count(y) <= count(x)})
    IN  among(UNION {todo[i].suc : i \in 1..Len(todo)})


(***************************************************************************)
(* The items of the tree (setree).  An item is a record of its kind, its   *)
(* entry block, its nodes, its successors, the nodes of its block-items    *)
(* in order and its parts.                                                 *)
(***************************************************************************)
\* SEScope(items), and with the kind of a statement SEWhile, SETry, SEIf
\* and SESwitch (head, scopes), the head being the first part
SEItem(kind, parts) ==
    LET inside == UNION {parts[i].nodes : i \in 1..Len(parts)}
    IN  [kind |-> kind, entry |-> parts[1].entry, nodes |-> inside,
         successors |-> FirstSeen(Concat([i \in 1..Len(parts) |-> parts[i].successors]), inside),
         blocks |-> Concat([i \in 1..Len(parts) |-> parts[i].blocks]),
         parts |-> parts]

(***************************************************************************)
(* constraintsToSETree, lines 925-979: the tree, or the exception raised.  *)
(* seitems is a function on the nodes, <<>> where there is no key.         *)
(***************************************************************************)
constraintsToSETree(g, doms, cs, ct, ns) ==
    LET \* lines 936-942: the chain of items from pos
        RECURSIVE chain(_, _, _, _)
        chain(seitems, body, at, items) ==
            IF at = NoNode THEN [seitems |-> seitems, items |-> items, exc |-> "none"]
            ELSE IF seitems[at] = <<>> THEN [seitems |-> seitems, items |-> items, exc |-> "KeyError"]
            ELSE LET suc == SelectSeq(seitems[at].successors, LAMBDA n : n \in body)
                 IN  IF Len(suc) > 1
                     THEN [seitems |-> seitems, items |-> items, exc |-> "AssertionError"]
                     ELSE chain([seitems EXCEPT ![at] = <<>>], body,
                                IF suc = <<>> THEN NoNode ELSE suc[1],
                                Append(items, seitems[at]))
        \* lines 932-946 for the scopes of cnode from the k-th on
        RECURSIVE scopesOf(_, _, _, _)
        wrapped(seitems, cnode, k, sescopes, r, item) ==
            IF item.nodes # cs[cnode].scopes[k].lbound
            THEN [seitems |-> seitems, sescopes |-> sescopes, exc |-> "AssertionError"]
            ELSE scopesOf(r.seitems, cnode, k + 1, Append(sescopes, item))
        chained(seitems, cnode, k, sescopes, r) ==
            IF r.exc # "none" THEN [seitems |-> seitems, sescopes |-> sescopes, exc |-> r.exc]
            ELSE wrapped(seitems, cnode, k, sescopes, r, SEItem("scope", r.items))
        scopesOf(seitems, cnode, k, sescopes) ==
            IF k > Len(cs[cnode].scopes)
            THEN [seitems |-> seitems, sescopes |-> sescopes, exc |-> "none"]
            ELSE IF cs[cnode].scopes[k].lbound = {}
                 THEN [seitems |-> seitems, sescopes |-> sescopes, exc |-> "IndexError"]
            ELSE chained(seitems, cnode, k, sescopes,
                         chain(seitems, cs[cnode].scopes[k].lbound,
                               dominator(doms, cs[cnode].scopes[k].lbound), <<>>))
        \* lines 948-971
        build(tag, head, sescopes) ==
            IF tag = "while" THEN SEItem("while", <<sescopes[1]>>)
            ELSE IF tag = "if" THEN SEItem("if", <<head, sescopes[2], sescopes[1]>>)
            ELSE IF tag = "switch"
                 THEN SEItem("switch", <<head>> \o [i \in 1..Len(sescopes) |->
                                                      SEItem("scope", <<sescopes[i]>>)])
            ELSE IF tag = "try" THEN SEItem("try", <<sescopes[1], sescopes[2]>>)
            ELSE sescopes[1]
        RECURSIVE each(_, _)
        \* lines 948-974 for the constraint cnode and the item new built for it
        built(seitems, cnodes, head, rest, new) ==
            IF (head # <<>> /\ head.kind # "block") \/ new.nodes # cs[Head(cnodes)].lbound
               \/ rest[new.entry] # <<>>
            THEN [seitems |-> seitems, exc |-> "AssertionError"]
            ELSE each([rest EXCEPT ![new.entry] = new], Tail(cnodes))
        headed(seitems, cnodes, r, head) ==
            IF head = <<>> THEN [seitems |-> seitems, exc |-> "KeyError"]
            ELSE built(seitems, cnodes, head, [r.seitems EXCEPT ![cs[Head(cnodes)].head] = <<>>],
                       build(cs[Head(cnodes)].tag, head, r.sescopes))
        scoped(seitems, cnodes, r) ==
            IF r.exc # "none" THEN [seitems |-> seitems, exc |-> r.exc]
            ELSE IF cs[Head(cnodes)].tag \in {"if", "switch"}
                 THEN headed(seitems, cnodes, r, r.seitems[cs[Head(cnodes)].head])
            ELSE built(seitems, cnodes, <<>>, r.seitems,
                       build(cs[Head(cnodes)].tag, <<>>, r.sescopes))
        each(seitems, cnodes) ==
            IF cnodes = <<>> THEN [seitems |-> seitems, exc |-> "none"]
            ELSE scoped(seitems, cnodes, scopesOf(seitems, Head(cnodes), 1, <<>>))
        \* lines 976-979
        root(r, left) ==
            IF r.exc # "none" THEN [tree |-> <<>>, exc |-> r.exc]
            ELSE IF Cardinality(left) # 1 \/ \E n \in left : r.seitems[n].kind # "scope"
                 THEN [tree |-> <<>>, exc |-> "AssertionError"]
            ELSE [tree |-> r.seitems[CHOOSE n \in left : TRUE], exc |-> "none"]
        remaining(r) == root(r, {n \in 1..Len(g) : r.seitems[n] # <<>>})
    IN  remaining(each([n \in 1..Len(g) |->
                           \* line 926: SEBlockItem(n)
                           IF n \in Range(ns)
                           THEN [kind |-> "block", entry |-> n, nodes |-> {n},
                                 successors |-> norm_suc_nl(g, doms, n),
                                 blocks |-> <<n>>, parts |-> <<>>]
                           ELSE <<>>],
                       topologicalSort(<<ct.croot>>, [c \in 1..Len(cs) |-> ct.children[c]])))


(***************************************************************************)
(* structure, lines 997-1047: the passes, one action per step.  spc is the *)
(* position in structure, serr the exception that ended it.                *)
(***************************************************************************)
\* structure ends with the exception exc
StructRaise(exc) == spc' = "failed" /\ serr' = exc

\* lines 998-1001
SelfLoops ==
    LET RECURSIVE each(_, _)
        each(ns, a) ==
            IF ns = <<>> THEN a
            ELSE IF Head(ns) \in Range(a.graph[Head(ns)].succ)
                 THEN LET g1 == indirectEdges(a.graph, Head(ns), <<Head(ns)>>)
                      IN  each(Tail(ns), [graph |-> g1, nodes |-> Append(a.nodes, Len(g1))])
            ELSE each(Tail(ns), a)
    IN  /\ spc = "start"
        /\ \E r \in {each(nodes, [graph |-> graph, nodes |-> nodes])} :
              /\ graph' = r.graph /\ nodes' = r.nodes
              /\ work' = [todo |-> r.nodes]
        /\ spc' = "loops"
        /\ UNCHANGED <<poolVars, callVars, asmVars, codeVars, entryNode, serr, dominfo,
                       while_heads, newtryinfos, condinfos, cons, constraints, ctree, step>>

\* line 1004 left out: structure goes on without structureLoops
LoopsSkipped ==
    /\ spc = "loops"
    /\ spc' = "exceptions"
    /\ work' = <<>>
    /\ UNCHANGED <<graph, nodes, while_heads, serr, step>>
    /\ UNCHANGED <<poolVars, callVars, asmVars, codeVars, entryNode, dominfo,
                   newtryinfos, condinfos, cons, constraints, ctree>>

\* line 1004, structureLoops: one iteration of `while todo`, or its return;
\* step lists the nodes that duplicateNodes has made so far
Loops ==
    /\ spc = "loops"
    /\ IF work.todo = <<>>
       THEN /\ spc' = "exceptions"
            /\ UNCHANGED <<graph, nodes, while_heads, serr, step>>
            /\ work' = <<>>
       ELSE \E r \in {loopsRound([graph |-> graph, nodes |-> nodes, todo |-> work.todo,
                                   while_heads |-> while_heads, exc |-> "none"])} :
                /\ graph' = r.graph /\ nodes' = r.nodes /\ while_heads' = r.while_heads
                /\ work' = [todo |-> r.todo]
                /\ step' = step \o SubSeq(r.nodes, Len(nodes) + 1, Len(r.nodes))
                /\ IF r.exc = "none" THEN UNCHANGED <<spc, serr>> ELSE StructRaise(r.exc)
    /\ UNCHANGED <<poolVars, callVars, asmVars, codeVars, entryNode, dominfo,
                   newtryinfos, condinfos, cons, constraints, ctree>>

\* line 1005
Exceptions ==
    /\ spc = "exceptions"
    /\ \E r \in {structureExceptions(graph, nodes)} :
        /\ graph' = r.graph /\ nodes' = r.nodes /\ newtryinfos' = r.newinfos
        /\ spc' = "conditionals"
        /\ UNCHANGED <<poolVars, callVars, asmVars, codeVars, entryNode, serr, dominfo,
                       while_heads, condinfos, cons, constraints, ctree, work, step>>

\* line 1006
Conditionals ==
    /\ spc = "conditionals"
    /\ \E r \in {structureConditionals(graph, nodes, entryNode)} :
        /\ graph' = r.graph /\ nodes' = r.nodes
        /\ condinfos' = [switchinfos |-> r.switchinfos, ifinfos |-> r.ifinfos]
        /\ IF r.exc = "none" THEN spc' = "constraints" /\ serr' = serr ELSE StructRaise(r.exc)
        /\ UNCHANGED <<poolVars, callVars, asmVars, codeVars, entryNode, dominfo,
                       while_heads, newtryinfos, cons, constraints, ctree, work, step>>

\* lines 1007-1008 with lines 269-275 of createConstraints left out: no try
\* constraint is forced above or below another
ConstraintsUnseeded ==
    /\ spc = "constraints"
    /\ \E doms \in {DominatorInfo(graph, entryNode)} :
       \E r \in {createConstraints(graph, doms, while_heads, newtryinfos,
                                   condinfos.switchinfos, condinfos.ifinfos)} :
        /\ dominfo' = [doms |-> doms, stack |-> <<>>]
        /\ cons' = [c \in 1..Len(r.cons) |->
                      [r.cons[c] EXCEPT !.forcedup = {}, !.forceddown = {}]]
        /\ constraints' = [i \in 1..Len(r.cons) |-> i]
        /\ work' = [todo |-> [i \in 1..Len(r.cons) |-> i], frozen |-> {},
                     children |-> [k \in 0..Len(r.cons) |-> <<>>]]
        /\ IF r.exc = "none" THEN spc' = "order1" /\ serr' = serr ELSE StructRaise(r.exc)
        /\ UNCHANGED <<poolVars, callVars, asmVars, codeVars, graph, nodes, entryNode,
                       while_heads, newtryinfos, condinfos, ctree, step>>

\* lines 1007-1008, and lines 317-329 of the first orderConstraints
Constraints ==
    /\ spc = "constraints"
    /\ \E doms \in {DominatorInfo(graph, entryNode)} :
       \E r \in {createConstraints(graph, doms, while_heads, newtryinfos,
                                   condinfos.switchinfos, condinfos.ifinfos)} :
        /\ dominfo' = [doms |-> doms, stack |-> <<>>]
        /\ cons' = r.cons /\ constraints' = [i \in 1..Len(r.cons) |-> i]
        /\ work' = [todo |-> [i \in 1..Len(r.cons) |-> i], frozen |-> {},
                     children |-> [k \in 0..Len(r.cons) |-> <<>>]]
        /\ IF r.exc = "none" THEN spc' = "order1" /\ serr' = serr ELSE StructRaise(r.exc)
        /\ UNCHANGED <<poolVars, callVars, asmVars, codeVars, graph, nodes, entryNode,
                       while_heads, newtryinfos, condinfos, ctree, step>>

\* the orders in which iterating over a set of try constraints may yield them
IterOrders ==
    LET sets == {cons[j].forcedup : j \in Range(constraints)}
                    \cup {cons[j].forceddown : j \in Range(constraints)}
        T == UNION {S \in sets : Cardinality(S) > 1}
        RECURSIVE perms(_)
        perms(S) == IF S = {} THEN {<<>>}
                    ELSE UNION {{<<x>> \o q : q \in perms(S \ {x})} : x \in S}
    IN  perms(T)

\* lines 330-403 of the first orderConstraints (line 1010): one placement;
\* when no candidate is left, the assertion of line 1011 fails
Order1 ==
    /\ spc = "order1" /\ work.todo # <<>>
    /\ \E ord \in IterOrders :
          \E r \in {orderPlace(graph, dominfo.doms, cons, constraints, work, ord)} :
              /\ cons' = r.cons /\ work' = r.w
              /\ IF r.failed \/ r.exc # "none" THEN StructRaise("AssertionError")
                 ELSE UNCHANGED <<spc, serr>>
    /\ UNCHANGED <<poolVars, callVars, asmVars, codeVars, graph, nodes, entryNode, dominfo,
                   while_heads, newtryinfos, condinfos, constraints, ctree, step>>


\* lines 405-417 of the first orderConstraints, line 1011, and lines 420-425
\* and 534-539 of mergeExceptions (line 1014)
Order1Return ==
    /\ spc = "order1" /\ work.todo = <<>>
    /\ \E r \in {orderReturn(cons, work, nodes)} :
        /\ cons' = r.cons /\ ctree' = r.tree
        /\ work' = mergeStart(r.cons, constraints, r.tree.children)
        /\ IF r.exc = "none" THEN spc' = "merge" /\ serr' = serr ELSE StructRaise(r.exc)
        /\ UNCHANGED <<poolVars, callVars, asmVars, codeVars, graph, nodes, entryNode, dominfo,
                       while_heads, newtryinfos, condinfos, constraints, step>>

\* lines 540-557: the next try constraint con
MergeCon ==
    /\ spc = "merge" /\ work.j = 0 /\ work.i <= Len(work.trycons)
    /\ \E r \in {mergeCon(graph, nodes, dominfo.doms, cons, work)} :
        /\ cons' = r.cons /\ work' = r.m
        /\ UNCHANGED <<ctree, step>>
        /\ IF r.exc = "none" THEN UNCHANGED <<spc, serr>> ELSE StructRaise(r.exc)
        /\ UNCHANGED <<poolVars, callVars, asmVars, codeVars, graph, nodes, entryNode, dominfo,
                       while_heads, newtryinfos, condinfos, constraints>>

\* lines 560-568: tryExtend(con, con2) for the next candidate con2; step
\* records the call and its result.  nord is one of the orders in which
\* iterating over the set body may yield the nodes that have an entry in
\* con.forbidden
MergeExtend ==
    /\ spc = "merge" /\ work.j > 0 /\ work.j <= Len(work.cands)
    /\ \E nord \in LET RECURSIVE perms(_)
                      perms(S) == IF S = {} THEN {<<>>}
                                  ELSE UNION {{<<x>> \o q : q \in perms(S \ {x})} : x \in S}
                  IN  perms({q[1] : q \in cons[work.trycons[work.i]].forbidden}) :
          \E con \in {work.trycons[work.i]}, con2 \in {work.cands[work.j]} :
          \E r \in {tryExtend(graph, dominfo.doms, cons, work, con, con2, nord)} :
          LET ok == r.exc = "none" /\ (r.success => covered(r.cons, con, con2))
          IN  /\ cons' = r.cons
              /\ work' = [r.m EXCEPT !.j = @ + 1,
                                     !.good = IF r.success THEN @ \cup {con2} ELSE @]
              /\ ctree' = [ctree EXCEPT !.children = r.m.children]
              /\ step' = [con |-> con, con2 |-> con2, success |-> r.success, before |-> cons]
              /\ IF ok THEN UNCHANGED <<spc, serr>> ELSE StructRaise("AssertionError")
    /\ UNCHANGED <<poolVars, callVars, asmVars, codeVars, graph, nodes, entryNode, dominfo,
                   while_heads, newtryinfos, condinfos, constraints>>

\* lines 570-596: the candidates that con covers are removed
MergeRemove ==
    /\ spc = "merge" /\ work.j > Len(work.cands)
    /\ \E r \in {mergeRemove(cons, work)} :
        /\ cons' = r.cons /\ work' = r.m
        /\ ctree' = [ctree EXCEPT !.children = r.m.children]
        /\ step' = step
        /\ IF r.exc = "none" THEN UNCHANGED <<spc, serr>> ELSE StructRaise(r.exc)
        /\ UNCHANGED <<poolVars, callVars, asmVars, codeVars, graph, nodes, entryNode, dominfo,
                       while_heads, newtryinfos, condinfos, constraints>>

\* lines 598-650, fixTryConstraints (line 1018) and lines 317-329 of the
\* second orderConstraints (line 1021)
MergeCleanup ==
    /\ spc = "merge" /\ work.j = 0 /\ work.i > Len(work.trycons)
    /\ \E r \in {mergeCleanup(graph, nodes, cons, constraints, work)} :
       \E doms \in {DominatorInfo(r.graph, entryNode)} :
       \E f \in {fixTryConstraints(doms, r.cons, r.constraints)} :
        /\ graph' = r.graph /\ nodes' = r.nodes /\ constraints' = r.constraints
        /\ dominfo' = [doms |-> doms, stack |-> <<>>]
        /\ cons' = IF r.exc = "none" THEN f.cons ELSE r.cons
        /\ work' = [todo |-> r.constraints, frozen |-> {},
                     children |-> [k \in 0..Len(cons) |-> <<>>]]
        /\ IF r.exc # "none" THEN StructRaise(r.exc)
           ELSE IF f.exc # "none" THEN StructRaise(f.exc)
           ELSE spc' = "order2" /\ serr' = serr
        /\ UNCHANGED <<poolVars, callVars, asmVars, codeVars, entryNode, while_heads,
                       newtryinfos, condinfos, ctree, step>>

\* lines 330-403 of the second orderConstraints: one placement.  When no
\* candidate is left, structure goes on with no tree and _checkNested(None)
\* raises AttributeError at line 983
Order2 ==
    /\ spc = "order2" /\ work.todo # <<>>
    /\ \E ord \in IterOrders :
          \E r \in {orderPlace(graph, dominfo.doms, cons, constraints, work, ord)} :
              /\ cons' = r.cons /\ work' = r.w
              /\ IF r.exc # "none" THEN StructRaise(r.exc)
                 ELSE IF r.failed
                      THEN StructRaise(IF edgesAgree(graph, nodes, dominfo.doms)
                                       THEN "AttributeError" ELSE "AssertionError")
                 ELSE UNCHANGED <<spc, serr>>
    /\ UNCHANGED <<poolVars, callVars, asmVars, codeVars, graph, nodes, entryNode, dominfo,
                   while_heads, newtryinfos, condinfos, constraints, ctree, step>>


\* lines 405-417 of the second orderConstraints, lines 1027-1039 and lines
\* 701-711 of completeScopes (line 1040)
Order2Return ==
    /\ spc = "order2" /\ work.todo = <<>>
    /\ \E r \in {orderReturn(cons, work, nodes)} :
        /\ cons' = r.cons /\ ctree' = r.tree
        /\ work' = [stack |-> <<r.tree.croot>>, parent |-> 0, revorder |-> <<>>,
                    frozen_nodes |-> {}]
        /\ IF /\ r.exc = "none"
              /\ edgesAgree(graph, nodes, dominfo.doms)
              /\ checkNested(r.cons, r.tree.children)
              /\ \A k \in DOMAIN r.tree.children : \A c \in Range(r.tree.children[k]) :
                    Cardinality({i \in 1..Len(r.cons[k].scopes) :
                        r.cons[c].lbound \subseteq r.cons[k].scopes[i].lbound}) = 1
           THEN spc' = "complete" /\ serr' = serr
           ELSE StructRaise("AssertionError")
    /\ UNCHANGED <<poolVars, callVars, asmVars, codeVars, graph, nodes, entryNode, dominfo,
                   while_heads, newtryinfos, condinfos, constraints, step>>

\* lines 712-717 and 827: the next parent; when the stack is empty,
\* completeScopes returns, and lines 1043 and 830-854 of addBreakScopes
CompleteParent ==
    /\ spc = "complete" /\ work.revorder = <<>>
    /\ \E w \in {completeParent(graph, dominfo.doms, entryNode, cons, ctree.children, work)} :
        /\ IF w.parent # 0
           THEN work' = w /\ UNCHANGED <<spc, serr>>
           ELSE \E todo \in {breakStart(graph, dominfo.doms, cons, constraints, ctree)} :
                IF checkNested(cons, ctree.children) /\ todo # <<>>
                THEN work' = [todo |-> todo[1]] /\ spc' = "break" /\ serr' = serr
                ELSE work' = w /\ StructRaise("AssertionError")
        /\ UNCHANGED <<cons, constraints, ctree, step>>
        /\ UNCHANGED <<poolVars, callVars, asmVars, codeVars, graph, nodes, entryNode, dominfo,
                       while_heads, newtryinfos, condinfos>>

\* lines 720-824: the next child of the parent
CompleteChild ==
    /\ spc = "complete" /\ work.revorder # <<>>
    /\ \E r \in {completeChild(graph, dominfo.doms, entryNode, cons, ctree.children, work)} :
        /\ cons' = r.cons /\ work' = r.w
        /\ ctree' = [ctree EXCEPT !.children = r.children]
        /\ IF r.exc = "none" THEN UNCHANGED <<spc, serr>> ELSE StructRaise(r.exc)
        /\ UNCHANGED <<constraints, step>>
        /\ UNCHANGED <<poolVars, callVars, asmVars, codeVars, graph, nodes, entryNode, dominfo,
                       while_heads, newtryinfos, condinfos>>

\* lines 856-923: one more break scope
BreakScope ==
    /\ spc = "break" /\ work.todo # <<>>
    /\ \E r \in {breakStep(graph, dominfo.doms, entryNode, cons, constraints, ctree, work.todo)} :
        /\ cons' = r.cons /\ constraints' = r.constraints /\ ctree' = r.tree
        /\ work' = [todo |-> r.todo]
        /\ IF r.exc = "none" THEN UNCHANGED <<spc, serr>> ELSE StructRaise(r.exc)
        /\ step' = step
        /\ UNCHANGED <<poolVars, callVars, asmVars, codeVars, graph, nodes, entryNode, dominfo,
                       while_heads, newtryinfos, condinfos>>

\* lines 1045-1047: the tree is built and returned in work
Return ==
    /\ spc = "break" /\ work.todo = <<>>
    /\ \E r \in {constraintsToSETree(graph, dominfo.doms, cons, ctree, nodes)} :
        /\ work' = r.tree
        /\ IF ~checkNested(cons, ctree.children) THEN StructRaise("AssertionError")
           ELSE IF r.exc # "none" THEN StructRaise(r.exc)
           ELSE spc' = "done" /\ serr' = serr
        /\ UNCHANGED <<cons, constraints, ctree, step>>
        /\ UNCHANGED <<poolVars, callVars, asmVars, codeVars, graph, nodes, entryNode, dominfo,
                       while_heads, newtryinfos, condinfos>>

StructNext ==
    \/ SelfLoops \/ Loops \/ Exceptions \/ Conditionals \/ Constraints
    \/ Order1 \/ Order1Return
    \/ MergeCon \/ MergeExtend \/ MergeRemove \/ MergeCleanup
    \/ Order2 \/ Order2Return
    \/ CompleteParent \/ CompleteChild \/ BreakScope \/ Return

(***************************************************************************)
(* The CFGs handed to structure.  Block 1 is the entry; blocks are listed  *)
(* in an order in which every block is reachable from block 1.             *)
(***************************************************************************)
\* largest number of blocks of a CFG of goto, if, switch and return blocks
MaxNodes == 5

\* CFGs without exception handlers: block n returns, jumps to a block at
\* distance at most three, branches to n+1 and a block at distance at most
\* two, or (block 1 only) switches over blocks 2, 3 and 4
LoopGraphs ==
    LET Terms(n, N) ==
            {<<>>} \cup {<<t>> : t \in {n + 1, n + 2, n - 1, n - 2, n - 3} \cap (1..N)}
            \cup {<<n + 1, t>> : t \in {t \in {n + 2, n, n - 1, n - 2} \cap (1..N) : n + 1 <= N}}
            \cup (IF n = 1 /\ N >= 4 THEN {<<2, 3, 4>>} ELSE {})
        jump(succ) == IF Len(succ) = 3 THEN "switch" ELSE JumpOf(succ)
        RECURSIVE pick(_, _)
        pick(n, N) ==
            IF n = 0 THEN {<<>>}
            ELSE {Append(f, Node(jump(sl), sl, <<>>)) : f \in pick(n - 1, N), sl \in Terms(n, N)}
        RECURSIVE reach(_, _)
        reach(bs, S) == LET T == S \cup UNION {Range(bs[x].succ) : x \in S}
                        IN  IF T = S THEN S ELSE reach(bs, T)
    IN  UNION {{bs \in pick(N, N) : reach(bs, {1}) = 1..N} : N \in 3..MaxNodes}

\* number of blocks in a row that may throw, and number of handler blocks
MaxThrowers == 3
MaxHandlers == 3

\* CFGs with exception handlers: a chain of MaxThrowers blocks followed by a
\* return; a block of the chain has no handler, one handler for both
\* exception types, or a handler for type 1 and another for type 2; the
\* handlers return, except that the last handler can throw an exception of
\* type 1 to the first handler ("rethrow") or go on to one more block, which
\* can throw an exception of the unrelated types 1 and 3 back to it and
\* returns otherwise ("retry")
TryGraphs ==
    LET Menu == {<<>>} \cup {<<[en |-> h, cset |-> {1, 2}]>> : h \in 1..MaxHandlers}
                \cup {<<[en |-> p[1], cset |-> {1}], [en |-> p[2], cset |-> {2}]>> :
                         p \in {p \in (1..MaxHandlers) \X (1..MaxHandlers) : p[1] # p[2]}}
        RECURSIVE pick(_)
        pick(n) == IF n = 0 THEN {<<>>} ELSE {Append(f, c) : f \in pick(n - 1), c \in Menu}
        hsOf(f) == UNION {{f[i][j].en : j \in 1..Len(f[i])} : i \in 1..Len(f)}
        at(h) == MaxThrowers + 1 + h
        blocks(f, lasth) ==
            LET u == Cardinality(hsOf(f))
            IN  [n \in 1..(MaxThrowers + 1 + u + (IF lasth = "retry" THEN 1 ELSE 0)) |->
                    IF n <= MaxThrowers
                    THEN IF f[n] = <<>> THEN Node("goto", <<n + 1>>, <<>>)
                         ELSE Node("exc", <<n + 1>> \o [j \in 1..Len(f[n]) |-> at(f[n][j].en)],
                                   [j \in 1..Len(f[n]) |->
                                       [en |-> at(f[n][j].en), cset |-> f[n][j].cset]])
                    ELSE IF lasth = "rethrow" /\ n = at(u)
                    THEN Node("exc", <<MaxThrowers + 1, at(1)>>, <<[en |-> at(1), cset |-> {1}]>>)
                    ELSE IF lasth = "retry" /\ n = at(u)
                    THEN Node("goto", <<at(u) + 1>>, <<>>)
                    ELSE IF n = at(u) + 1
                    THEN Node("exc", <<MaxThrowers + 1, at(u)>>, <<[en |-> at(u), cset |-> {1, 3}]>>)
                    ELSE Node("ret", <<>>, <<>>)]
    IN  UNION {{blocks(f, lasth) :
                   lasth \in {"ret"}
                             \cup (IF Cardinality(hsOf(f)) > 0 THEN {"retry"} ELSE {})
                             \cup (IF Cardinality(hsOf(f)) > 1 THEN {"rethrow"} ELSE {})} :
               f \in {f \in pick(MaxThrowers) : hsOf(f) = 1..Cardinality(hsOf(f))}}

\* structure(entryNode, nodes, isClinit) is called on one of the CFGs
StructInit ==
    \E bs \in LoopGraphs \cup TryGraphs :
        /\ graph = Wire(bs)
        /\ nodes = [n \in 1..Len(bs) |-> n]
        /\ entryNode = 1
        /\ spc = "start" /\ serr = "none"
        /\ dominfo = <<>> /\ while_heads = <<>> /\ newtryinfos = <<>>
        /\ condinfos = <<>> /\ cons = <<>> /\ constraints = <<>> /\ ctree = <<>>
        /\ work = <<>> /\ step = <<>>
        /\ index = InitIndex
        /\ lbls = [l \in PoolLabels |-> NoRef]
        /\ cpool = <<>>
        /\ last = NoCall("none")
        /\ first_index = [r \in RefIds |-> NoneIdx]
        /\ AsmIdle /\ CodeIdle


SpecStruct == StructInit /\ [][StructNext]_vars

\* structure runs on until it returns or raises: weak fairness of StructNext,
\* written out with the states in which StructNext is enabled (those in
\* which structure has neither returned nor raised) and with the steps of
\* the specification, which are all steps of StructNext
SpecStructFair ==
    SpecStruct /\ ([]<>(spc \in {"done", "failed"}) \/ []<><<TRUE>>_vars)

\* ---- end of the restructurer model ----

(***************************************************************************)
(* Claims about the restructurer.                                          *)
(***************************************************************************)
\* the nodes reachable from the nodes S of g along paths that avoid d
RECURSIVE ReachAvoiding(_, _, _)
ReachAvoiding(g, S, d) ==
    LET T == S \cup UNION {Range(g[x].succ) \ {d} : x \in S}
    IN  IF T = S THEN S ELSE ReachAvoiding(g, T, d)

Reachable(g, root) == ReachAvoiding(g, {root}, NoNode)

\* d is on every path of g from root to n
Dominates(g, root, d, n) ==
    d = n \/ d = root \/ n \notin ReachAvoiding(g, {root}, d)

\* dominators(n) is exactly the dominators of n, as a chain from the root to n
ExactDominators(g, root, doms) ==
    \A n \in Reachable(g, root) :
        /\ Range(doms[n]) = {d \in Reachable(g, root) : Dominates(g, root, d, n)}
        /\ doms[n][1] = root /\ doms[n][Len(doms[n])] = n
        /\ \A i, j \in 1..Len(doms[n]) :
               i < j => doms[n][i] # doms[n][j] /\ Dominates(g, root, doms[n][i], doms[n][j])

\* one iteration of the work list with the longest-common-prefix rule in
\* the place of line 43
RelaxPrefix(g, d) ==
    LET cur == d.stack[Len(d.stack)]
        RECURSIVE children(_, _, _)
        children(cs, doms, stk) ==
            IF cs = <<>> THEN [doms |-> doms, stack |-> stk]
            ELSE LET child == Head(cs)
                     old == doms[child]
                     cand == Append(doms[cur], child)
                     new == IF cand # old /\ old # <<>> THEN MeetPrefix(old, cand) ELSE cand
                 IN  IF new # old
                     THEN children(Tail(cs), [doms EXCEPT ![child] = new],
                                   IF child \in Range(stk) THEN stk ELSE Append(stk, child))
                     ELSE children(Tail(cs), doms, stk)
    IN  children(g[cur].succ, d.doms, SubSeq(d.stack, 1, Len(d.stack) - 1))

\* the relaxation of the work list with the longest-common-prefix rule
RECURSIVE PrefixLoop(_, _)
PrefixLoop(g, d) ==
    IF d.stack = <<>> THEN d.doms ELSE PrefixLoop(g, RelaxPrefix(g, d))

\* C20 as amended: the construction of DominatorInfo terminates on every
\* CFG and, when it has, dominators(n) is for every node n reachable from
\* the root exactly the set of the nodes that are on every path from the
\* root to n, ordered as a chain that starts with the root and ends with n.
C20_Dominators ==
    /\ <>(spc = "domdone")
    /\ [](spc = "domdone" => ExactDominators(graph, entryNode, dominfo.doms))

\* a join node has been relaxed and keeps a dominator between the root and itself
C20_Witness ==
    /\ spc = "domdone"
    /\ \E n \in Reachable(graph, entryNode) :
           /\ Len(dominfo.doms[n]) >= 3
           /\ \E a, b \in Range(graph[n].pred) \cap Reachable(graph, entryNode) :
                  a # b /\ dominfo.doms[a] # dominfo.doms[b]

\* C20 as stated: at the fixed point dominators(n) is exact, and it is what
\* the longest-common-prefix rule computes.
C20_AsStated ==
    spc = "domdone" =>
        /\ ExactDominators(graph, entryNode, dominfo.doms)
        /\ dominfo.doms = PrefixLoop(graph, DomStart(graph, entryNode))


\* the strongly connected component of the node n of g
StronglyConnected(g, n) == {m \in Reachable(g, n) : n \in Reachable(g, m)}

\* the nodes of the set scc that have a predecessor outside it
EntriesOf(g, scc) == {x \in scc : ~(Range(g[x].pred) \subseteq scc)}

\* C11: when structureLoops has returned, every strongly connected component
\* of two or more nodes of the graph has exactly one node with a predecessor
\* outside the component, and that node is in the returned list while_heads.
C11_SingleEntry ==
    spc = "exceptions" =>
        \A n \in Range(nodes) :
            Cardinality(StronglyConnected(graph, n)) >= 2 =>
                \E h \in Range(while_heads) :
                    EntriesOf(graph, StronglyConnected(graph, n)) = {h}

\* structureLoops has returned after it duplicated the nodes of a loop that
\* had several entries
C11_Witness ==
    /\ spc = "exceptions" /\ step # <<>>
    /\ \E n \in Range(nodes) : Cardinality(StronglyConnected(graph, n)) >= 2

\* the graph of S3: A = 1 (the entry), B = 2, C = 3, with the edges A -> B,
\* A -> C, B -> C and C -> A
S3Graph == Wire(<<Node("if", <<2, 3>>, <<>>), Node("goto", <<3>>, <<>>),
                  Node("goto", <<1>>, <<>>)>>)

\* C12: on the graph of S3, structureLoops returns with A as the only loop
\* head, and once the constraints are created there is exactly one while
\* constraint, whose lbound contains A, B and C.
C12_S3While ==
    graph = S3Graph =>
        /\ spc \notin {"start", "loops"} => serr = "none" /\ while_heads = <<1>>
        /\ spc \notin {"start", "loops", "exceptions", "conditionals", "constraints"} =>
               /\ Cardinality({c \in 1..Len(cons) : cons[c].tag = "while"}) = 1
               /\ \A c \in 1..Len(cons) :
                      cons[c].tag = "while" => {1, 2, 3} \subseteq cons[c].lbound

\* structureLoops has ended on the graph of S3
C12_Witness == graph = S3Graph /\ spc \notin {"start", "loops"}

\* the constraints that are children of the same constraint in the tree have
\* disjoint lbounds, and the lbound of a child is within that of its parent
NestedTree(cs, children) ==
    \A k \in DOMAIN children :
        /\ \A i, j \in 1..Len(children[k]) :
              i < j => cs[children[k][i]].lbound \cap cs[children[k][j]].lbound = {}
        /\ k # DummyParent => \A c \in Range(children[k]) : cs[c].lbound \subseteq cs[k].lbound

BoundsWithin(b, ns) == b.lbound \subseteq b.ubound /\ b.ubound \subseteq ns

\* C14: at every point of structure, every constraint of the list constraints
\* and every one of its scopes has its lbound within its ubound and its
\* ubound within the current node set.
C14_Bounds ==
    \A c \in Range(constraints) :
        /\ BoundsWithin(cons[c], Range(nodes))
        /\ \A i \in 1..Len(cons[c].scopes) : BoundsWithin(cons[c].scopes[i], Range(nodes))

\* a placement step of orderConstraints has placed a constraint around the
\* constraints that it placed before
C14_Witness ==
    /\ spc \in {"order1", "order2"}
    /\ \E c \in work.frozen : work.children[c] # <<>>

\* the nodes that mergeExceptions has taken out of the list nodes
RemovedNodes == (1..Len(graph)) \ Range(nodes)

\* C15: in the tree that structure returns, the nodes of the block-items are
\* the nodes of the list nodes, each in exactly one block-item; the nodes
\* left out are targets of try constraints that the merge removed, and no
\* such node is a predecessor or successor of a node of the list or can be
\* reached from the entry node.
C15_Cover ==
    spc = "done" =>
        /\ Range(work.blocks) = Range(nodes)
        /\ \A i, j \in 1..Len(work.blocks) : work.blocks[i] = work.blocks[j] => i = j
        /\ RemovedNodes \subseteq
               {cons[c].target : c \in {c \in 1..Len(cons) : cons[c].tag = "try"}
                                          \ Range(constraints)}
        /\ \A n \in Range(nodes) :
               (Range(graph[n].succ) \cup Range(graph[n].pred)) \cap RemovedNodes = {}
        /\ Reachable(graph, entryNode) \cap RemovedNodes = {}

\* structure has returned a tree after the merge removed a dummy node
C15_Witness == spc = "done" /\ RemovedNodes # {}

\* the scopes that hold a node, of the constraints of the tree
TreeScopes(cs, clist, croot) ==
    {sc \in UNION {{cs[c].scopes[i] : i \in 1..Len(cs[c].scopes)} :
                      c \in Range(clist) \cup {croot}} : sc.lbound # {}}

\* the only edges that leave a scope, back edges aside, leave its entry
ExitsAtEntry(g, doms, ns, scopes) ==
    \A sc \in scopes :
        \A x \in Range(ns) \ sc.lbound :
            \A p \in Range(predecessors_nl(g, doms, x)) \cap sc.lbound :
                p = dominator(doms, sc.lbound)

\* the only edges that enter a scope, back edges aside, enter its entry
EntersAtEntry(g, doms, scopes) ==
    \A sc \in scopes :
        /\ dominator(doms, sc.lbound) \in sc.lbound
        /\ \A x \in sc.lbound \ {dominator(doms, sc.lbound)} :
               Range(predecessors_nl(g, doms, x)) \subseteq sc.lbound

\* C16 as stated: when completeScopes has returned, for each scope of each
\* constraint, a node outside the scope's lbound has no non-back predecessor
\* inside that lbound other than the scope's entry.
C16_AsStated ==
    [][(spc = "complete" /\ spc' = "break")
           => ExitsAtEntry(graph', dominfo'.doms, nodes',
                           TreeScopes(cons', constraints', ctree'.croot))]_vars

\* C16: when completeScopes has returned, for each scope of each constraint,
\* the entry of the scope (the common dominator of its lbound) is in the
\* lbound, and no other node of the lbound has a non-back predecessor
\* outside the lbound.
C16_SingleEntry ==
    [][(spc = "complete" /\ spc' = "break")
           => EntersAtEntry(graph', dominfo'.doms,
                            TreeScopes(cons', constraints', ctree'.croot))]_vars

\* completeScopes has returned and a scope of a while, try, if or switch
\* constraint holds several nodes, one of which has a successor outside it
C16_Witness ==
    /\ spc = "break"
    /\ \E c \in Range(constraints) :
          /\ cons[c].tag # "scope"
          /\ \E i \in 1..Len(cons[c].scopes) :
                /\ Cardinality(cons[c].scopes[i].lbound) >= 2
                /\ \E x \in cons[c].scopes[i].lbound :
                      ~(Range(graph[x].succ) \subseteq cons[c].scopes[i].lbound)

\* the step is a placement step of orderConstraints that finds no candidate
\* (line 378) and returns failure
OrderFails ==
    /\ spc \in {"order1", "order2"} /\ work.todo # <<>>
    /\ \E ord \in IterOrders :
          /\ orderPlace(graph, dominfo.doms, cons, constraints, work, ord).failed
          /\ cons' = cons /\ work' = work

\* C17: when orderConstraints finds no candidate for a component and returns
\* failure, in the first ordering as in the second, structure ends at once
\* with the error that the check of the returned tree raises (the assertion
\* of line 1011) and does not go on with a missing tree.
C17_OrderFailure ==
    [][OrderFails => spc' = "failed" /\ serr' = "AssertionError"]_vars

\* the second orderConstraints has found no candidate and structure has gone
\* on to _checkNested with no tree
C17_Witness ==
    /\ spc = "failed" /\ serr = "AttributeError"
    /\ "todo" \in DOMAIN work /\ work.todo # <<>>

\* the try constraints of cs among the constraints of the set live
TryConsOf(cs, live) == {c \in live : cs[c].tag = "try"}

\* of two try constraints made for the same throwing node, the one with the
\* strictly narrower cset has the other in forcedup and is in its forceddown
SeededBySubset(cs) ==
    \A a, b \in TryConsOf(cs, 1..Len(cs)) :
        (/\ cs[a].scopes[1].lbound = cs[b].scopes[1].lbound
         /\ cs[a].cset \subseteq cs[b].cset /\ cs[a].cset # cs[b].cset)
            => b \in cs[a].forcedup /\ a \in cs[b].forceddown

\* forcedup and forceddown mirror each other and share no constraint
ReciprocalForced(cs, live) ==
    \A a \in TryConsOf(cs, live) :
        /\ cs[a].forcedup \cap cs[a].forceddown = {}
        /\ \A b \in TryConsOf(cs, live) : b \in cs[a].forcedup <=> a \in cs[b].forceddown

\* C18: when createConstraints has returned, of two try constraints of one
\* throwing node the one with the strictly narrower cset has the other in its
\* forcedup and is in the other's forceddown; and when mergeExceptions and
\* fixTryConstraints have returned, for the surviving try constraints b is in
\* forcedup of a exactly when a is in forceddown of b, and no constraint is in
\* both sets of another.
C18_Forced ==
    [][/\ (spc = "constraints" /\ spc' = "order1") => SeededBySubset(cons')
       /\ (spc = "merge" /\ spc' = "order2")
              => ReciprocalForced(cons', Range(constraints'))]_vars

\* the merge has removed a try constraint and a surviving try constraint is
\* still forced above another
C18_Witness ==
    /\ spc = "order2"
    /\ Len(constraints) < Len(cons) - 1
    /\ \E a \in TryConsOf(cons, Range(constraints)) : cons[a].forcedup # {}

\* C19: the result of a step of structure does not depend on the order in
\* which sets are iterated: a placement step of orderConstraints gives the
\* same constraints and the same tree for every iteration order of the
\* forcedup and forceddown sets, and tryExtend gives the same result for
\* every iteration order of the set body.
C19_OrderIndependent ==
    /\ (spc \in {"order1", "order2"} /\ work.todo # <<>>) =>
           \A o1, o2 \in IterOrders :
               orderPlace(graph, dominfo.doms, cons, constraints, work, o1)
                   = orderPlace(graph, dominfo.doms, cons, constraints, work, o2)
    /\ (spc = "merge" /\ work.j > 0 /\ work.j <= Len(work.cands)) =>
           \A n1, n2 \in {q \in [1..Cardinality({f[1] : f \in cons[work.trycons[work.i]].forbidden})
                                    -> {f[1] : f \in cons[work.trycons[work.i]].forbidden}] :
                              \A i, j \in DOMAIN q : q[i] = q[j] => i = j} :
               tryExtend(graph, dominfo.doms, cons, work, work.trycons[work.i],
                         work.cands[work.j], n1)
                   = tryExtend(graph, dominfo.doms, cons, work, work.trycons[work.i],
                               work.cands[work.j], n2)

\* a placement step has several iteration orders to choose from
C19_Witness ==
    /\ spc \in {"order1", "order2"} /\ work.todo # <<>>
    /\ Cardinality(IterOrders) >= 2

\* extend(S) holds S, lies within the area of the common dominator of S,
\* holds the predecessors of its nodes other than that dominator, and is
\* its own extension
ExtendCloses(g, doms, S) ==
    LET e == extend(g, doms, S)
    IN  /\ S \subseteq e
        /\ e \subseteq area(doms, dominator(doms, S))
        /\ \A x \in e \ {dominator(doms, S)} : Range(g[x].pred) \subseteq e
        /\ extend(g, doms, e) = e

\* largest number of nodes of a graph of which every set of nodes is extended
MaxExtendNodes == 9

\* C21: with the dominators that structure computes before each of the two
\* orderings, for every non-empty set S of nodes, extend(S) contains S, is
\* contained in the area of the common dominator of S, contains every
\* predecessor of each of its members other than the common dominator, and
\* extend(extend(S)) = extend(S).
C21_Extend ==
    (spc \in {"order1", "order2"} /\ work.frozen = {} /\ Len(nodes) <= MaxExtendNodes) =>
        \A S \in SUBSET Range(nodes) : S # {} => ExtendCloses(graph, dominfo.doms, S)

\* the dominators are computed and extend adds a node to some set of two
\* nodes and stops at their common dominator, which has a predecessor
C21_Witness ==
    /\ spc \in {"order1", "order2"} /\ work.frozen = {} /\ Len(nodes) <= MaxExtendNodes
    /\ \E a, b \in Range(nodes) :
          /\ a # b
          /\ extend(graph, dominfo.doms, {a, b}) # {a, b}
          /\ graph[dominator(dominfo.doms, {a, b})].pred # <<>>

\* tryExtend(con, con2) is called and returns False
ExtendFails ==
    /\ spc = "merge" /\ spc' = "merge"
    /\ work.j > 0 /\ work.j <= Len(work.cands)
    /\ ~step'.success

\* C22: when tryExtend(A, B) returns False, A.lbound, A.cset, A.forbidden,
\* A.forcedup and A.forceddown, every other constraint, parents and children
\* are what they were before the call; A.ubound is a subset of what it was
\* and still contains A.lbound.
C22_Rollback ==
    [][ExtendFails =>
          LET A == work.trycons[work.i]
          IN  /\ cons' = [cons EXCEPT ![A].ubound = cons'[A].ubound]
              /\ work'.parents = work.parents
              /\ work'.children = work.children
              /\ ctree'.children = ctree.children
              /\ cons'[A].ubound \subseteq cons[A].ubound
              /\ cons'[A].lbound \subseteq cons'[A].ubound]_vars

\* a tryExtend(con, con2) has just returned False and has left con.ubound
\* smaller than it was
C22_Witness ==
    /\ spc = "merge" /\ work.j > 1
    /\ step.con = work.trycons[work.i] /\ step.con2 = work.cands[work.j - 1]
    /\ ~step.success
    /\ cons[step.con].ubound # step.before[step.con].ubound

\* the scan of the candidates of con = trycons[i] is over and lines 570-596
\* run next
ScanEnds == spc = "merge" /\ work.j > Len(work.cands)

\* lines 560-568 for the candidates taken in the order cands
scanIn(g, doms, cs, m, cands, nord) ==
    LET con == m.trycons[m.i]
        RECURSIVE scan(_, _, _, _)
        then(r, con2, rest, good) ==
            IF r.exc # "none" \/ (r.success /\ ~covered(r.cons, con, con2))
            THEN [cons |-> r.cons, m |-> r.m, exc |-> "AssertionError"]
            ELSE scan(r.cons, r.m, rest, IF r.success THEN good \cup {con2} ELSE good)
        scan(cs1, m1, rest, good) ==
            IF rest = <<>>
            THEN [cons |-> cs1, m |-> [m1 EXCEPT !.good = good, !.cands = cands], exc |-> "none"]
            ELSE then(tryExtend(g, doms, cs1, m1, con, Head(rest), nord), Head(rest), Tail(rest), good)
    IN  scan(cs, m, cands, {})

\* the orders in which the elements of the set S can be taken
OrdersOf(S) ==
    LET RECURSIVE perms(_)
        perms(T) == IF T = {} THEN {<<>>}
                    ELSE UNION {{<<x>> \o q : q \in perms(T \ {x})} : x \in T}
    IN  perms(S)

\* C23: a candidate B for which tryExtend(A, B) returns True is covered by A
\* at that point (B.lbound, B.cset and, up to {A, B}, B's forced sets are
\* inside A's); at the end of the scan for A no candidate for which
\* tryExtend returned False is covered, and the removal loop ends without a
\* failed assertion and removes exactly the candidates for which tryExtend
\* returned True.  The same holds when the candidates of A are tried in any
\* other order, as long as no tryExtend of that scan fails an assertion.
C23_RemovedIffGood ==
    [][/\ (spc = "merge" /\ work.j > 0 /\ work.j <= Len(work.cands) /\ step'.success)
            => covered(cons', step'.con, step'.con2)
       /\ ScanEnds =>
            /\ spc' = "merge"
            /\ work'.removed = work.removed \cup work.good
            /\ \A B \in Range(work.cands) \ work.good :
                  ~covered(cons, work.trycons[work.i], B)
       /\ (spc = "merge" /\ work.j = 1) =>
            \A cands \in OrdersOf(Range(work.cands)) :
            \A nord \in OrdersOf({q[1] : q \in cons[work.trycons[work.i]].forbidden}) :
            \A r \in {scanIn(graph, dominfo.doms, cons, work, cands, nord)} :
                \/ r.exc # "none"
                \/ /\ \A B \in Range(cands) \ r.m.good :
                         ~covered(r.cons, work.trycons[work.i], B)
                   /\ \A d \in {mergeRemove(r.cons, r.m)} :
                         d.exc = "none" /\ d.m.removed = work.removed \cup r.m.good]_vars

\* the scan for A is over: it has removed a candidate, and the last candidate,
\* for which tryExtend had returned False, is kept
C23_Witness ==
    /\ spc = "merge" /\ work.j = 0 /\ work.i > 1
    /\ work.good # {} /\ work.good \subseteq work.removed
    /\ step.con = work.trycons[work.i - 1]
    /\ ~step.success /\ step.con2 \notin work.removed

\* ordered is a target list of the switch node n of the graph g as the claim
\* describes it; g1 is the graph with the indirect nodes
SwitchListed(g, doms, n, ordered, g1) ==
    LET targets == g[n].succ
        olds == {x \in Range(ordered) : x <= Len(g)}
        news == {x \in Range(ordered) : x > Len(g)}
        bads == Range(targets) \ olds
    IN  /\ Len(ordered) = Len(targets)
        /\ \A i, j \in 1..Len(ordered) : ordered[i] = ordered[j] => i = j
        /\ olds \subseteq Range(targets)
        /\ Cardinality(news) = Cardinality(bads)
        /\ \A b \in bads : \E d \in news : g1[d].succ = <<b>> /\ g1[d].pred = <<n>>
        /\ \A x, q \in olds :
              (x # q /\ area(doms, q) \cap Range(g[x].pred) # {}) =>
                  \E i \in 1..(Len(ordered) - 1) : ordered[i] = q /\ ordered[i + 1] = x

\* structureConditionals returns and every switch node has one target list,
\* which is as the claim describes it
SwitchesListed ==
    /\ spc' = "constraints"
    /\ \A n \in {n \in Range(nodes) : graph[n].jump = "switch"} :
          /\ Cardinality({i \in 1..Len(condinfos'.switchinfos) :
                              condinfos'.switchinfos[i].n = n}) = 1
          /\ \A i \in 1..Len(condinfos'.switchinfos) :
                condinfos'.switchinfos[i].n = n =>
                    SwitchListed(graph, DominatorInfo(graph, entryNode), n,
                                 condinfos'.switchinfos[i].ordered, graph')

\* C24: structureConditionals gives every switch node a target list with one
\* entry per successor, where each good target occurs once, each bad target
\* is represented by one fresh indirect node, and every good target whose
\* predecessors meet the area of another good target comes immediately after
\* that target.
C24_SwitchOrder == [][spc = "conditionals" => SwitchesListed]_vars

\* as C24 for the calls of structureConditionals that return
C24_WhenReturned ==
    [][(spc = "conditionals" /\ spc' = "constraints") => SwitchesListed]_vars

\* structureConditionals has returned a target list in which a good target
\* follows the good target that jumps to it
C24_Witness ==
    /\ spc = "order1" /\ work.frozen = {}
    /\ \E i \in 1..Len(condinfos.switchinfos) :
       \E k \in 1..(Len(condinfos.switchinfos[i].ordered) - 1) :
          graph[condinfos.switchinfos[i].ordered[k]].succ
              = <<condinfos.switchinfos[i].ordered[k + 1]>>

\* the exception types of cset that are subtypes of the type top
SubtypesIn(cset, top) ==
    LET RECURSIVE isSub(_)
        isSub(t) == IF t = 0 THEN FALSE ELSE IF t = top THEN TRUE ELSE isSub(Super[t])
    IN  {t \in cset : isSub(t)}

\* in the graph g1 and the list infos that structureExceptions has made of the
\* graph g, the handler en of the throwing node n, which catches cset, is
\* detached from n and every top type of cset has its dummy node and its
\* triple
HandlerDetached(g, g1, infos, n, en, cset) ==
    LET tops == {t \in cset : Super[t] \notin cset}
        mine == {i \in 1..Len(infos) : infos[i].n = n}
        dummies == {d \in (Len(g) + 1)..Len(g1) :
                       g1[d].succ = <<en>> /\ n \in Range(g1[d].pred)}
    IN  /\ en \notin Range(g1[n].succ)
        /\ n \notin Range(g1[en].pred)
        /\ en \notin g1[n].outvars
        /\ Cardinality(mine) = 1
        /\ Cardinality(dummies) = Cardinality(tops)
        /\ \A d \in dummies :
              /\ d \in Range(g1[n].succ) /\ d \in g1[n].eassigns
              /\ g1[d].pred = <<n>> /\ d \in Range(g1[en].pred)
        /\ \A i \in mine :
              /\ \A t \in tops :
                    Cardinality({j \in 1..Len(infos[i].tryinfos) :
                                    /\ infos[i].tryinfos[j].top = SubtypesIn(1..Len(Super), t)
                                    /\ infos[i].tryinfos[j].target \in dummies}) = 1
              /\ \A d \in dummies :
                    Cardinality({j \in 1..Len(infos[i].tryinfos) :
                                    infos[i].tryinfos[j].target = d}) = 1

\* C25: structureExceptions leaves, for every throwing node n and every
\* handler of its manager, no edge from n to the handler's node and no entry
\* of n.outvars for it, and for each top type of the handler's exception set
\* exactly one fresh dummy node d that leads to the handler's node, with d
\* in n.successors, n in d.predecessors, n.eassigns[d] defined and exactly
\* one triple recorded for the top type, which names d.
C25_Detached ==
    [][spc = "exceptions" =>
          \A n \in {n \in Range(nodes) : graph[n].jump = "exc"} :
          \A k \in 1..Len(graph[n].hand) :
              HandlerDetached(graph, graph', newtryinfos', n,
                              graph[n].hand[k].en, graph[n].hand[k].cset)]_vars

\* structureExceptions has run on a graph with a node that throws exceptions
\* of two unrelated types to one handler and a node that throws to two
\* handlers
C25_Witness ==
    /\ spc = "conditionals"
    /\ \E n \in Range(nodes) : \E k \in 1..Len(graph[n].hand) :
          Cardinality({t \in graph[n].hand[k].cset : Super[t] \notin graph[n].hand[k].cset}) = 2
    /\ \E n \in Range(nodes) : Len(graph[n].hand) = 2

\* the next child of the parent is processed and frozen: the iteration of
\* lines 720-824 does not stop at line 722
ChildFrozen ==
    /\ spc = "complete" /\ work.revorder # <<>>
    /\ work.revorder[Len(work.revorder)] \in Range(ctree.children[work.parent])

\* the siblings that are still to be processed when the next child is
Pending ==
    (Range(work.revorder) \ {work.revorder[Len(work.revorder)]})
        \cap Range(ctree.children[work.parent])

\* line 717: the dominator of the lbound of the child c comes before that of
\* the child d in the keys of the sort, that is, after it in the topological
\* order of the nodes
EntryBelow(c, d) ==
    LET order == nodeorder(graph, dominfo.doms, entryNode)
    IN  order[dominator(dominfo.doms, cons[c].lbound)]
            < order[dominator(dominfo.doms, cons[d].lbound)]

\* C26 as stated: when a child is processed and frozen, no sibling that is
\* still to be processed has a smaller ubound.
C26_AsStated ==
    [][ChildFrozen =>
          \A o \in Pending :
              Cardinality(cons[work.revorder[Len(work.revorder)]].ubound)
                  <= Cardinality(cons[o].ubound)]_vars

\* C26 amended: when a child is processed and frozen, every sibling that is
\* still to be processed has a smaller key, and it is the first component
\* of the key that differs (the position of the dominator of the lbound in
\* the node order), whatever the sizes of the ubounds; the siblings the
\* child takes as children are among those.
C26_DecreasingKey ==
    [][ChildFrozen =>
          /\ \A o \in Pending : EntryBelow(o, work.revorder[Len(work.revorder)])
          /\ Range(ctree'.children[work.revorder[Len(work.revorder)]])
                 \ Range(ctree.children[work.revorder[Len(work.revorder)]]) \subseteq Pending]_vars

\* a child is processed and frozen while a sibling with a smaller ubound,
\* whose lbound lies in the ubound of the child, is still to be processed
C26_Witness ==
    /\ ChildFrozen
    /\ \E o \in Pending :
          /\ Cardinality(cons[o].ubound) <
                Cardinality(cons[work.revorder[Len(work.revorder)]].ubound)
          /\ cons[o].lbound \subseteq cons[work.revorder[Len(work.revorder)]].ubound

\* the constraints of the tree cs, children that have more than one normal
\* non-back successor outside their lbound and inside the scope of their
\* parent that holds them (getSuccessors, lines 830-834 and 843-846)
ManyExits(g, doms, cs, children) ==
    {c \in 1..Len(cs) :
        \E p \in 1..Len(cs) : \E k \in 1..Len(cs[p].scopes) :
            /\ c \in Range(children[p])
            /\ cs[c].lbound \cap cs[p].scopes[k].ubound # {}
            /\ Cardinality(getSuccessors(g, doms, cs[p].scopes[k], cs[c].lbound)) > 1}

\* C27: once addBreakScopes has started, structure returns or raises, and
\* when addBreakScopes returns no constraint of the tree has more than one
\* normal non-back successor inside the scope of its parent.
C27_BreakScopes ==
    /\ [][(spc = "break" /\ work.todo = <<>>) =>
             ManyExits(graph, dominfo.doms, cons, ctree.children) = {}]_vars
    /\ (spc = "break") ~> (spc \in {"done", "failed"})

\* structure has returned and addBreakScopes had added a scope
C27_Witness == spc = "done" /\ Len(cons) > ctree.croot

\* the edges of the nodes ns of the graph g stay among ns and are the same in
\* the successor lists and in the predecessor lists
EdgesSymmetric(g, ns) ==
    \A n \in Range(ns) :
        /\ Range(g[n].succ) \cup Range(g[n].pred) \subseteq Range(ns)
        /\ \A m \in Range(ns) : m \in Range(g[n].succ) <=> n \in Range(g[m].pred)

\* the merge is over: every handler of a throwing node n of ns is reached
\* from n through the target of a try constraint of clist that contains n,
\* and n has no other exception edge
ThrowsKept(g, ns, cs, clist) ==
    \A n \in {n \in Range(ns) : g[n].jump = "exc"} :
        LET via(en) == {cs[c].target : c \in {c \in Range(clist) :
                           /\ cs[c].tag = "try" /\ n \in cs[c].lbound
                           /\ cs[c].orig_target = en}}
            handlers == {g[n].hand[k].en : k \in 1..Len(g[n].hand)}
        IN  /\ \A en \in handlers :
                  \E d \in via(en) :
                      /\ d \in Range(ns) /\ d \in Range(g[n].succ) /\ d \in g[n].eassigns
                      /\ g[d].succ = <<en>> /\ n \in Range(g[d].pred)
            /\ g[n].eassigns \subseteq UNION {via(en) : en \in handlers}
            /\ Range(g[n].succ) = g[n].outvars \cup g[n].eassigns

\* C28: after the removal of the self loops, structureLoops,
\* structureExceptions, structureConditionals and mergeExceptions, m is in
\* n.successors exactly when n is in m.predecessors, for the nodes of the
\* list nodes; and after mergeExceptions every handler of a throwing node
\* is still reached through a dummy node of the list, the target of a try
\* constraint that contains the node and has that original handler.
C28_Edges ==
    /\ (spc \in {"loops", "exceptions", "conditionals", "constraints"}
           \/ (spc = "order2" /\ work.frozen = {}))
          => EdgesSymmetric(graph, nodes)
    /\ (spc = "order2" /\ work.frozen = {}) => ThrowsKept(graph, nodes, cons, constraints)

\* mergeExceptions has removed a try constraint and its dummy node, and the
\* node that threw to it throws to the dummy node of another node
C28_Witness ==
    /\ spc = "order2" /\ work.frozen = {}
    /\ \E n \in Range(nodes) : \E d \in graph[n].eassigns :
          graph[d].pred # <<>> /\ graph[d].pred[1] # n

====
